---- MODULE Spec2Model ----
(***************************************************************************)
(* package-outdated-why: the classification and scoring engine.            *)
(*                                                                         *)
(* analyzePackages() reads the list of outdated packages and the map of    *)
(* security advisories, classifies every package (analyzePackage), sorts   *)
(* the four priority buckets by risk score and folds the analyses into a   *)
(* summary and a security score.                                           *)
(*                                                                         *)
(* Strings the code inspects character by character (package names,        *)
(* version strings) are sequences of one-character strings.  Template      *)
(* literals are sequences of their parts.                                  *)
(***************************************************************************)
EXTENDS Integers, Sequences, FiniteSets, TLC

\* an absent object (undefined)
Null == [undefined |-> TRUE]

(***************************************************************************)
(* Character helpers                                                       *)
(***************************************************************************)
Digits == {"0", "1", "2", "3", "4", "5", "6", "7", "8", "9"}

IsDigit(c) == c \in Digits

DigitVal(c) ==
  CASE c = "0" -> 0 [] c = "1" -> 1 [] c = "2" -> 2 [] c = "3" -> 3
    [] c = "4" -> 4 [] c = "5" -> 5 [] c = "6" -> 6 [] c = "7" -> 7
    [] c = "8" -> 8 [] c = "9" -> 9

\* value of the decimal digit string s[i..j-1]
RECURSIVE NumVal(_, _, _)
NumVal(s, i, j) ==
  IF j <= i THEN 0 ELSE NumVal(s, i, j - 1) * 10 + DigitVal(s[j - 1])

\* smallest index >= i holding a digit, Len(s)+1 when there is none
RECURSIVE FirstDigit(_, _)
FirstDigit(s, i) ==
  IF i > Len(s) THEN Len(s) + 1
  ELSE IF IsDigit(s[i]) THEN i ELSE FirstDigit(s, i + 1)

\* index just after the digit run that starts at i
RECURSIVE RunEnd(_, _)
RunEnd(s, i) ==
  IF i > Len(s) THEN i
  ELSE IF IsDigit(s[i]) THEN RunEnd(s, i + 1) ELSE i

\* String.prototype.includes: sub occurs in s at some offset
Includes(s, sub) ==
  \E k \in 0..(Len(s) - Len(sub)) :
    \A j \in 1..Len(sub) : s[k + j] = sub[j]

(***************************************************************************)
(* semver.coerce, semver.major, semver.minor (library calls of             *)
(* analyzeSemver).  coerce takes the first digit run as major and up to    *)
(* two following ".digits" groups as minor and patch (missing ones are 0); *)
(* the resulting "M.m.p" is parsed strictly, so a component with a         *)
(* leading zero or above Number.MAX_SAFE_INTEGER gives no version.  Digit  *)
(* runs are at most 16 long in all inputs considered here.                 *)
(***************************************************************************)
\* a dotted component starts at index e: s[e] = "." followed by a digit
HasComponent(s, e) ==
  e + 1 <= Len(s) /\ s[e] = "." /\ IsDigit(s[e + 1])

\* strict numeric identifier: "0" or no leading zero
StrictNumeric(s, i, j) == (j - i = 1) \/ s[i] # "0"

\* the digits of Number.MAX_SAFE_INTEGER, 2^53 - 1
MAX_SAFE_INTEGER ==
  <<"9", "0", "0", "7", "1", "9", "9", "2", "5", "4", "7", "4", "0", "9",
    "9", "1">>

\* the digit strings s[i..] and t[k..] of the same length denote a <= b
RECURSIVE DigitsLeq(_, _, _, _)
DigitsLeq(s, i, t, k) ==
  IF k > Len(t) THEN TRUE
  ELSE IF DigitVal(s[i]) < DigitVal(t[k]) THEN TRUE
  ELSE IF DigitVal(s[i]) > DigitVal(t[k]) THEN FALSE
  ELSE DigitsLeq(s, i + 1, t, k + 1)

\* the component s[i..j-1], without a leading zero, is at most
\* MAX_SAFE_INTEGER (the SemVer constructor throws 'Invalid major version'
\* and the like otherwise)
SafeInteger(s, i, j) ==
  \/ j - i < Len(MAX_SAFE_INTEGER)
  \/ j - i = Len(MAX_SAFE_INTEGER) /\ DigitsLeq(s, i, MAX_SAFE_INTEGER, 1)

\* a component the strict parse accepts
ValidComponent(s, i, j) == StrictNumeric(s, i, j) /\ SafeInteger(s, i, j)

\* strict parse of the coerced components major = version[i1..e1-1],
\* minor = version[e1+1..e2-1] (if e2 > e1), patch = version[e2+1..e3-1]
\* (if e3 > e2)
coerceParse(version, i1, e1, e2, e3) ==
  IF /\ ValidComponent(version, i1, e1)
     /\ (e2 > e1 => ValidComponent(version, e1 + 1, e2))
     /\ (e3 > e2 => ValidComponent(version, e2 + 1, e3))
  THEN [major |-> NumVal(version, i1, e1),
        minor |-> IF e2 > e1 THEN NumVal(version, e1 + 1, e2) ELSE 0,
        patch |-> IF e3 > e2 THEN NumVal(version, e2 + 1, e3) ELSE 0]
  ELSE Null

\* the optional third group, only after a second one
coercePatch(version, i1, e1, e2) ==
  coerceParse(version, i1, e1, e2,
              IF e2 > e1 /\ HasComponent(version, e2)
              THEN RunEnd(version, e2 + 1) ELSE e2)

\* the optional second group
coerceMinor(version, i1, e1) ==
  coercePatch(version, i1, e1,
              IF HasComponent(version, e1)
              THEN RunEnd(version, e1 + 1) ELSE e1)

\* the first digit run starts at i1, if there is one
coerceMajor(version, i1) ==
  IF i1 > Len(version) THEN Null
  ELSE coerceMinor(version, i1, RunEnd(version, i1))

coerce(version) == coerceMajor(version, FirstDigit(version, 1))

(***************************************************************************)
(* analyzeSemver                                                           *)
(***************************************************************************)
\* variant: minorUpdate does not look at majorUpdate
compareVersions_minorAlone(current, latest) ==
  IF current = Null \/ latest = Null
  THEN [majorUpdate |-> FALSE, minorUpdate |-> FALSE, patchUpdate |-> TRUE,
        currentMajor |-> 0, latestMajor |-> 0]
  ELSE [majorUpdate |-> latest.major > current.major,
        minorUpdate |-> latest.minor > current.minor,
        patchUpdate |-> ~(latest.major > current.major)
                        /\ ~(latest.minor > current.minor),
        currentMajor |-> current.major, latestMajor |-> latest.major]

\* variant: an unknown version counts as a minor update
compareVersions_fallbackMinor(current, latest) ==
  IF current = Null \/ latest = Null
  THEN [majorUpdate |-> FALSE, minorUpdate |-> TRUE, patchUpdate |-> FALSE,
        currentMajor |-> 0, latestMajor |-> 0]
  ELSE [majorUpdate |-> latest.major > current.major,
        minorUpdate |-> ~(latest.major > current.major)
                        /\ latest.minor > current.minor,
        patchUpdate |-> ~(latest.major > current.major)
                        /\ ~(latest.minor > current.minor),
        currentMajor |-> current.major, latestMajor |-> latest.major]

\* the comparison of the two coerced versions
compareVersions(current, latest) ==
  IF current = Null \/ latest = Null
  THEN [majorUpdate |-> FALSE, minorUpdate |-> FALSE, patchUpdate |-> TRUE,
        currentMajor |-> 0, latestMajor |-> 0]
  ELSE [majorUpdate |-> latest.major > current.major,
        minorUpdate |-> ~(latest.major > current.major)
                        /\ latest.minor > current.minor,
        patchUpdate |-> ~(latest.major > current.major)
                        /\ ~(latest.minor > current.minor),
        currentMajor |-> current.major, latestMajor |-> latest.major]

analyzeSemver(pkg) == compareVersions(coerce(pkg.current), coerce(pkg.latest))

(***************************************************************************)
(* BREAKING_CHANGES_DB: one row per (package name, major version) entry    *)
(* of the table.  knownIssues is <<>> where the entry has none.            *)
(***************************************************************************)
BREAKING_CHANGES_DB ==
  {
    [name |-> <<"r", "e", "a", "c", "t">>, major |-> 18,
     url |-> "https://react.dev/blog/2022/03/29/react-v18",
     summary |-> "Concurrent rendering, automatic batching, new hooks",
     effort |-> "medium", knownIssues |-> <<"StrictMode double-renders", "Suspense changes">>],
    [name |-> <<"r", "e", "a", "c", "t">>, major |-> 19,
     url |-> "https://react.dev/blog/2024/04/25/react-19",
     summary |-> "Actions, use() hook, ref as prop, async transitions",
     effort |-> "medium", knownIssues |-> <<"forwardRef deprecated", "Context.Provider changes">>],
    [name |-> <<"r", "e", "a", "c", "t", "-", "d", "o", "m">>, major |-> 18,
     url |-> "https://react.dev/blog/2022/03/29/react-v18",
     summary |-> "createRoot API, hydrateRoot, concurrent features",
     effort |-> "low", knownIssues |-> <<"ReactDOM.render deprecated">>],
    [name |-> <<"r", "e", "a", "c", "t", "-", "d", "o", "m">>, major |-> 19,
     url |-> "https://react.dev/blog/2024/04/25/react-19",
     summary |-> "New hydration APIs, form actions",
     effort |-> "low", knownIssues |-> <<>>],
    [name |-> <<"n", "e", "x", "t">>, major |-> 13,
     url |-> "https://nextjs.org/blog/next-13",
     summary |-> "App Router, Server Components, Turbopack",
     effort |-> "high", knownIssues |-> <<"Pages Router still supported", "New file conventions">>],
    [name |-> <<"n", "e", "x", "t">>, major |-> 14,
     url |-> "https://nextjs.org/blog/next-14",
     summary |-> "Server Actions stable, partial prerendering",
     effort |-> "low", knownIssues |-> <<"Minimum Node.js 18 required">>],
    [name |-> <<"n", "e", "x", "t">>, major |-> 15,
     url |-> "https://nextjs.org/blog/next-15",
     summary |-> "Async request APIs, caching changes",
     effort |-> "medium", knownIssues |-> <<"fetch caching opt-in by default">>],
    [name |-> <<"v", "u", "e">>, major |-> 3,
     url |-> "https://v3-migration.vuejs.org/",
     summary |-> "Composition API, new reactivity system, Teleport",
     effort |-> "high", knownIssues |-> <<"Options API still works", "Some plugins need updates">>],
    [name |-> <<"a", "n", "g", "u", "l", "a", "r">>, major |-> 17,
     url |-> "https://blog.angular.io/introducing-angular-v17-4d7c1f6d75a8",
     summary |-> "New control flow, deferrable views, signals",
     effort |-> "medium", knownIssues |-> <<>>],
    [name |-> <<"a", "n", "g", "u", "l", "a", "r">>, major |-> 18,
     url |-> "https://blog.angular.io/angular-v18-is-now-available-e79d5fb1c4b8",
     summary |-> "Zoneless change detection, Material 3",
     effort |-> "medium", knownIssues |-> <<>>],
    [name |-> <<"s", "v", "e", "l", "t", "e">>, major |-> 5,
     url |-> "https://svelte.dev/blog/svelte-5-release-candidate",
     summary |-> "Runes, fine-grained reactivity, snippets",
     effort |-> "high", knownIssues |-> <<"$: reactive statements deprecated">>],
    [name |-> <<"t", "y", "p", "e", "s", "c", "r", "i", "p", "t">>, major |-> 5,
     url |-> "https://devblogs.microsoft.com/typescript/announcing-typescript-5-0/",
     summary |-> "Decorators, const type parameters, bundler resolution",
     effort |-> "low", knownIssues |-> <<"Some deprecated options removed">>],
    [name |-> <<"w", "e", "b", "p", "a", "c", "k">>, major |-> 5,
     url |-> "https://webpack.js.org/migrate/5/",
     summary |-> "Module federation, asset modules, persistent caching",
     effort |-> "high", knownIssues |-> <<"Node.js polyfills removed", "Config changes needed">>],
    [name |-> <<"v", "i", "t", "e">>, major |-> 5,
     url |-> "https://vitejs.dev/guide/migration.html",
     summary |-> "Rollup 4, Node.js 18+, CJS deprecation",
     effort |-> "low", knownIssues |-> <<>>],
    [name |-> <<"v", "i", "t", "e">>, major |-> 6,
     url |-> "https://vitejs.dev/guide/migration.html",
     summary |-> "Environment API, new defaults",
     effort |-> "low", knownIssues |-> <<>>],
    [name |-> <<"e", "s", "b", "u", "i", "l", "d">>, major |-> 0,
     url |-> "https://esbuild.github.io/",
     summary |-> "Pre-1.0 - check changelog for breaking changes",
     effort |-> "low", knownIssues |-> <<>>],
    [name |-> <<"e", "s", "l", "i", "n", "t">>, major |-> 9,
     url |-> "https://eslint.org/docs/latest/use/migrate-to-9.0.0",
     summary |-> "Flat config required, Node.js 18+, removed formatters",
     effort |-> "high", knownIssues |-> <<"eslintrc deprecated", "Many plugins need updates">>],
    [name |-> <<"j", "e", "s", "t">>, major |-> 29,
     url |-> "https://jestjs.io/docs/upgrading-to-jest29",
     summary |-> "Node.js 14+, snapshotFormat, JSDOM upgrade",
     effort |-> "low", knownIssues |-> <<>>],
    [name |-> <<"j", "e", "s", "t">>, major |-> 30,
     url |-> "https://jestjs.io/docs/upgrading-to-jest30",
     summary |-> "ESM support improvements, Node.js 18+",
     effort |-> "low", knownIssues |-> <<>>],
    [name |-> <<"v", "i", "t", "e", "s", "t">>, major |-> 1,
     url |-> "https://vitest.dev/guide/migration.html",
     summary |-> "Pool options, coverage changes",
     effort |-> "low", knownIssues |-> <<>>],
    [name |-> <<"v", "i", "t", "e", "s", "t">>, major |-> 2,
     url |-> "https://vitest.dev/guide/migration.html",
     summary |-> "Browser mode changes, new defaults",
     effort |-> "low", knownIssues |-> <<>>],
    [name |-> <<"p", "l", "a", "y", "w", "r", "i", "g", "h", "t">>, major |-> 1,
     url |-> "https://playwright.dev/docs/release-notes",
     summary |-> "Check release notes - frequent minor breaking changes",
     effort |-> "low", knownIssues |-> <<>>],
    [name |-> <<"e", "x", "p", "r", "e", "s", "s">>, major |-> 5,
     url |-> "https://expressjs.com/en/guide/migrating-5.html",
     summary |-> "Promise support, removed deprecated methods",
     effort |-> "medium", knownIssues |-> <<"app.del() removed", "req.param() removed">>],
    [name |-> <<"f", "a", "s", "t", "i", "f", "y">>, major |-> 5,
     url |-> "https://fastify.dev/docs/latest/Guides/Migration-Guide-V5/",
     summary |-> "Node.js 20+, async/await improvements",
     effort |-> "low", knownIssues |-> <<>>],
    [name |-> <<"h", "o", "n", "o">>, major |-> 4,
     url |-> "https://hono.dev/",
     summary |-> "Check changelog for breaking changes",
     effort |-> "low", knownIssues |-> <<>>],
    [name |-> <<"m", "o", "n", "g", "o", "o", "s", "e">>, major |-> 7,
     url |-> "https://mongoosejs.com/docs/migrating_to_7.html",
     summary |-> "Strict query, removed callbacks, Node.js 14+",
     effort |-> "medium", knownIssues |-> <<"Callbacks removed - use async/await">>],
    [name |-> <<"m", "o", "n", "g", "o", "o", "s", "e">>, major |-> 8,
     url |-> "https://mongoosejs.com/docs/migrating_to_8.html",
     summary |-> "Node.js 16+, removed deprecated methods",
     effort |-> "low", knownIssues |-> <<>>],
    [name |-> <<"p", "r", "i", "s", "m", "a">>, major |-> 5,
     url |-> "https://www.prisma.io/docs/guides/upgrade-guides/upgrading-to-prisma-5",
     summary |-> "JSON protocol, improved query engine",
     effort |-> "low", knownIssues |-> <<>>],
    [name |-> <<"p", "r", "i", "s", "m", "a">>, major |-> 6,
     url |-> "https://www.prisma.io/docs/guides/upgrade-guides/upgrading-to-prisma-6",
     summary |-> "Check migration guide",
     effort |-> "low", knownIssues |-> <<>>],
    [name |-> <<"s", "e", "q", "u", "e", "l", "i", "z", "e">>, major |-> 7,
     url |-> "https://sequelize.org/docs/v7/other-topics/upgrade/",
     summary |-> "TypeScript rewrite, new query interface",
     effort |-> "high", knownIssues |-> <<>>],
    [name |-> <<"t", "y", "p", "e", "o", "r", "m">>, major |-> 0,
     url |-> "https://typeorm.io/",
     summary |-> "Pre-1.0 - check changelog",
     effort |-> "medium", knownIssues |-> <<>>],
    [name |-> <<"d", "r", "i", "z", "z", "l", "e">>, major |-> 0,
     url |-> "https://orm.drizzle.team/",
     summary |-> "Pre-1.0 - API may change",
     effort |-> "low", knownIssues |-> <<>>],
    [name |-> <<"t", "a", "i", "l", "w", "i", "n", "d", "c", "s", "s">>, major |-> 3,
     url |-> "https://tailwindcss.com/docs/upgrade-guide",
     summary |-> "JIT by default, new color palette, aspect-ratio",
     effort |-> "low", knownIssues |-> <<>>],
    [name |-> <<"t", "a", "i", "l", "w", "i", "n", "d", "c", "s", "s">>, major |-> 4,
     url |-> "https://tailwindcss.com/docs/upgrade-guide",
     summary |-> "New engine, CSS-first config, @theme directive",
     effort |-> "medium", knownIssues |-> <<"tailwind.config.js format changed">>],
    [name |-> <<"@", "m", "u", "i", "/", "m", "a", "t", "e", "r", "i", "a", "l">>, major |-> 6,
     url |-> "https://mui.com/material-ui/migration/upgrade-to-v6/",
     summary |-> "Pigment CSS, improved theming",
     effort |-> "medium", knownIssues |-> <<>>],
    [name |-> <<"c", "h", "a", "k", "r", "a", "-", "u", "i">>, major |-> 3,
     url |-> "https://www.chakra-ui.com/docs/get-started/migration",
     summary |-> "Check migration guide",
     effort |-> "medium", knownIssues |-> <<>>],
    [name |-> <<"@", "r", "a", "d", "i", "x", "-", "u", "i", "/", "r", "e", "a", "c", "t", "-", "*">>, major |-> 1,
     url |-> "https://www.radix-ui.com/",
     summary |-> "Check individual component changelogs",
     effort |-> "low", knownIssues |-> <<>>],
    [name |-> <<"z", "u", "s", "t", "a", "n", "d">>, major |-> 5,
     url |-> "https://github.com/pmndrs/zustand/releases",
     summary |-> "Check release notes",
     effort |-> "low", knownIssues |-> <<>>],
    [name |-> <<"r", "e", "d", "u", "x">>, major |-> 5,
     url |-> "https://redux.js.org/introduction/why-rtk-is-redux-today",
     summary |-> "Use Redux Toolkit instead",
     effort |-> "low", knownIssues |-> <<>>],
    [name |-> <<"r", "e", "a", "c", "t", "-", "q", "u", "e", "r", "y">>, major |-> 5,
     url |-> "https://tanstack.com/query/latest/docs/framework/react/guides/migrating-to-v5",
     summary |-> "Renamed to @tanstack/react-query, API simplification",
     effort |-> "medium", knownIssues |-> <<>>],
    [name |-> <<"@", "t", "a", "n", "s", "t", "a", "c", "k", "/", "r", "e", "a", "c", "t", "-", "q", "u", "e", "r", "y">>, major |-> 5,
     url |-> "https://tanstack.com/query/latest/docs/framework/react/guides/migrating-to-v5",
     summary |-> "Simplified APIs, removed callbacks",
     effort |-> "low", knownIssues |-> <<>>],
    [name |-> <<"a", "x", "i", "o", "s">>, major |-> 1,
     url |-> "https://github.com/axios/axios/blob/v1.x/CHANGELOG.md",
     summary |-> "Removed deprecated methods, improved types",
     effort |-> "low", knownIssues |-> <<>>],
    [name |-> <<"l", "o", "d", "a", "s", "h">>, major |-> 5,
     url |-> "https://lodash.com/",
     summary |-> "ESM-first, tree-shakeable",
     effort |-> "low", knownIssues |-> <<>>],
    [name |-> <<"d", "a", "y", "j", "s">>, major |-> 2,
     url |-> "https://day.js.org/",
     summary |-> "Check release notes",
     effort |-> "low", knownIssues |-> <<>>],
    [name |-> <<"d", "a", "t", "e", "-", "f", "n", "s">>, major |-> 3,
     url |-> "https://date-fns.org/",
     summary |-> "String date parsing removed, new defaults",
     effort |-> "low", knownIssues |-> <<>>],
    [name |-> <<"d", "a", "t", "e", "-", "f", "n", "s">>, major |-> 4,
     url |-> "https://date-fns.org/",
     summary |-> "Check migration guide",
     effort |-> "low", knownIssues |-> <<>>],
    [name |-> <<"z", "o", "d">>, major |-> 4,
     url |-> "https://zod.dev/",
     summary |-> "Check release notes",
     effort |-> "low", knownIssues |-> <<>>],
    [name |-> <<"n", "o", "d", "e">>, major |-> 18,
     url |-> "https://nodejs.org/en/blog/announcements/v18-release-announce",
     summary |-> "Fetch API, test runner, watch mode",
     effort |-> "low", knownIssues |-> <<>>],
    [name |-> <<"n", "o", "d", "e">>, major |-> 20,
     url |-> "https://nodejs.org/en/blog/announcements/v20-release-announce",
     summary |-> "Permission model, stable test runner",
     effort |-> "low", knownIssues |-> <<>>],
    [name |-> <<"n", "o", "d", "e">>, major |-> 22,
     url |-> "https://nodejs.org/en/blog/announcements/v22-release-announce",
     summary |-> "require(esm), WebSocket client",
     effort |-> "low", knownIssues |-> <<>>]
  }

\* BREAKING_CHANGES_DB[pkgName]?.[major]
HasEntry(pkgName, major) ==
  \E r \in BREAKING_CHANGES_DB : r.name = pkgName /\ r.major = major

Entry(pkgName, major) ==
  CHOOSE r \in BREAKING_CHANGES_DB : r.name = pkgName /\ r.major = major

Undefined == "undefined"

getBreakingChangeUrl(pkgName, targetMajor) ==
  IF HasEntry(pkgName, targetMajor) THEN Entry(pkgName, targetMajor).url
  ELSE Undefined

getBreakingChangeInfo(pkgName, currentMajor, latestMajor) ==
  IF currentMajor >= latestMajor THEN Null
  ELSE IF ~HasEntry(pkgName, latestMajor) THEN Null
  ELSE LET entry == Entry(pkgName, latestMajor) IN
       [fromVersion |-> currentMajor, toVersion |-> latestMajor,
        migrationUrl |-> entry.url, summary |-> entry.summary,
        effort |-> entry.effort, knownIssues |-> entry.knownIssues]

\* variant: only the target major is looked up
hasKnownBreakingChanges_targetOnly(pkgName, currentMajor, latestMajor) ==
  IF currentMajor >= latestMajor THEN FALSE
  ELSE HasEntry(pkgName, latestMajor)

hasKnownBreakingChanges(pkgName, currentMajor, latestMajor) ==
  IF currentMajor >= latestMajor THEN FALSE
  ELSE IF ~(\E r \in BREAKING_CHANGES_DB : r.name = pkgName) THEN FALSE
  ELSE \E v \in (currentMajor + 1)..latestMajor : HasEntry(pkgName, v)

\* variant: the UI-framework names are tested before the linter/bundler ones
estimateUpdateEffort_frameworkFirst(pkgName, currentMajor, latestMajor) ==
  IF HasEntry(pkgName, latestMajor) THEN Entry(pkgName, latestMajor).effort
  ELSE IF \/ Includes(pkgName, <<"r", "e", "a", "c", "t">>)
          \/ Includes(pkgName, <<"v", "u", "e">>)
          \/ Includes(pkgName, <<"a", "n", "g", "u", "l", "a", "r">>)
       THEN "medium"
  ELSE IF \/ Includes(pkgName, <<"e", "s", "l", "i", "n", "t">>)
          \/ Includes(pkgName, <<"w", "e", "b", "p", "a", "c", "k">>)
       THEN "high"
  ELSE IF latestMajor - currentMajor >= 2 THEN "medium"
  ELSE "low"

estimateUpdateEffort(pkgName, currentMajor, latestMajor) ==
  IF HasEntry(pkgName, latestMajor) THEN Entry(pkgName, latestMajor).effort
  ELSE IF \/ Includes(pkgName, <<"e", "s", "l", "i", "n", "t">>)
          \/ Includes(pkgName, <<"w", "e", "b", "p", "a", "c", "k">>)
       THEN "high"
  ELSE IF \/ Includes(pkgName, <<"r", "e", "a", "c", "t">>)
          \/ Includes(pkgName, <<"v", "u", "e">>)
          \/ Includes(pkgName, <<"a", "n", "g", "u", "l", "a", "r">>)
       THEN "medium"
  ELSE IF latestMajor - currentMajor >= 2 THEN "medium"
  ELSE "low"

(***************************************************************************)
(* analyzePackage(pkg, advisories)                                         *)
(*   pkg        : [name, current, latest, type]                            *)
(*   advisories : sequence of [severity, title]                            *)
(***************************************************************************)
\* variant: a single advisory does not count
hasSecurityIssues_moreThanOne(advisories) == Len(advisories) > 1

hasSecurityIssues(advisories) == Len(advisories) > 0

\* variant: only severity critical counts
hasCriticalSecurity_criticalOnly(advisories) ==
  \E i \in 1..Len(advisories) : advisories[i].severity = "critical"

\* variant: severity moderate counts as critical too
hasCriticalSecurity_moderateToo(advisories) ==
  \E i \in 1..Len(advisories) : advisories[i].severity # "low"

hasCriticalSecurity(advisories) ==
  \E i \in 1..Len(advisories) :
    advisories[i].severity = "critical" \/ advisories[i].severity = "high"

\* variant: everything that is not a production dependency counts as dev
isDevDep_notProduction(pkg) == pkg.type # "dependencies"

isDevDep(pkg) == pkg.type = "devDependencies"

\* the effort tier
effort(pkg, semverInfo) ==
  IF semverInfo.majorUpdate
  THEN estimateUpdateEffort(pkg.name, semverInfo.currentMajor,
                            semverInfo.latestMajor)
  ELSE "low"

\* breaking change info if available
breakingChangeInfo(pkg, semverInfo) ==
  IF semverInfo.majorUpdate
  THEN getBreakingChangeInfo(pkg.name, semverInfo.currentMajor,
                             semverInfo.latestMajor)
  ELSE Null

\* variant: the security points are subtracted
securityPoints_subtracted(advisories) ==
  IF hasCriticalSecurity(advisories) THEN 0 - 80
  ELSE IF hasSecurityIssues(advisories) THEN 0 - 50
  ELSE 0

\* points for security issues
securityPoints(advisories) ==
  IF hasCriticalSecurity(advisories) THEN 80
  ELSE IF hasSecurityIssues(advisories) THEN 50
  ELSE 0

\* variant: a minor update weighs 10
updatePoints_minor10(pkg, semverInfo) ==
  IF semverInfo.majorUpdate
  THEN IF hasKnownBreakingChanges(pkg.name, semverInfo.currentMajor,
                                  semverInfo.latestMajor)
       THEN 30 ELSE 20
  ELSE IF semverInfo.minorUpdate THEN 10
  ELSE 0

\* points for the update type
updatePoints(pkg, semverInfo) ==
  IF semverInfo.majorUpdate
  THEN IF hasKnownBreakingChanges(pkg.name, semverInfo.currentMajor,
                                  semverInfo.latestMajor)
       THEN 30 ELSE 20
  ELSE IF semverInfo.minorUpdate THEN 5
  ELSE 0

\* variant: Math.round instead of Math.floor
devDiscount_rounded(pkg, advisories, score) ==
  IF isDevDep(pkg) /\ ~hasSecurityIssues(advisories)
  THEN (score + 1) \div 2
  ELSE score

\* reduce risk for dev dependencies: Math.floor(riskScore * 0.5)
devDiscount(pkg, advisories, score) ==
  IF isDevDep(pkg) /\ ~hasSecurityIssues(advisories)
  THEN score \div 2
  ELSE score

riskScore(pkg, advisories, semverInfo) ==
  devDiscount(pkg, advisories,
              securityPoints(advisories) + updatePoints(pkg, semverInfo))

\* priority, reason and whyItMatters, decided by the same branch
priorityAndReason(pkg, advisories, semverInfo, info) ==
  IF hasSecurityIssues(advisories) /\ hasCriticalSecurity(advisories)
  THEN [priority |-> "critical",
        reason |-> <<"Security vulnerability (", advisories[1].severity, "): ",
                     advisories[1].title>>,
        whyItMatters |->
          <<"This package has a known security flaw that attackers could exploit. ",
            IF advisories[1].severity = "critical"
            THEN "Critical vulnerabilities can lead to remote code execution or data breaches."
            ELSE "High severity issues can compromise your application security.">>]
  ELSE IF hasSecurityIssues(advisories)
  THEN [priority |-> "important",
        reason |-> <<"Security advisory: ", advisories[1].title>>,
        whyItMatters |->
          <<"There's a known security issue, though lower severity. Worth fixing to reduce your attack surface.">>]
  ELSE IF semverInfo.majorUpdate
  THEN IF /\ isDevDep(pkg)
          /\ ~hasKnownBreakingChanges(pkg.name, semverInfo.currentMajor,
                                      semverInfo.latestMajor)
       THEN [priority |-> "skip",
             reason |-> <<"Dev dependency major update (v",
                          semverInfo.currentMajor, " -> v",
                          semverInfo.latestMajor, ")">>,
             whyItMatters |->
               <<"This is a dev-only tool with a major update. Lower priority since it doesn't affect production.">>]
       ELSE IF info # Null
       THEN [priority |-> "important",
             reason |-> <<"Major update: ", info.summary>>,
             whyItMatters |->
               <<"Version ", semverInfo.latestMajor,
                 " includes breaking changes. ",
                 IF info.knownIssues # <<>>
                 THEN <<"Watch out for: ", info.knownIssues, ".">>
                 ELSE <<"Review the migration guide before updating.">> >>]
       ELSE [priority |-> "important",
             reason |-> <<"Major version update (v",
                          semverInfo.currentMajor, " -> v",
                          semverInfo.latestMajor, ")">>,
             whyItMatters |->
               <<"Major versions often include breaking changes. Check the changelog before updating.">>]
  ELSE IF semverInfo.minorUpdate
  THEN IF isDevDep(pkg)
       THEN [priority |-> "skip",
             reason |-> <<"Dev dependency minor update - new features">>,
             whyItMatters |->
               <<"New features available, but this is a dev tool. Update when convenient.">>]
       ELSE [priority |-> "safe",
             reason |-> <<"Minor update - new features, backward compatible">>,
             whyItMatters |->
               <<"New features added without breaking existing code. Safe to update.">>]
  ELSE IF isDevDep(pkg)
       THEN [priority |-> "skip",
             reason |-> <<"Dev dependency patch - bug fixes">>,
             whyItMatters |->
               <<"Bug fixes for a dev tool. Low priority but good to stay current.">>]
       ELSE [priority |-> "safe",
             reason |-> <<"Patch update - bug fixes only">>,
             whyItMatters |->
               <<"Bug fixes and small improvements. Very safe to update.">>]

\* variant: only a patch update is updated in place
updateCommand_patchOnly(pkg, semverInfo) ==
  IF semverInfo.patchUpdate
  THEN <<"npm update ", pkg.name, "">>
  ELSE <<"npm install ", pkg.name, "@latest">>

\* the suggested command: <<template text, package name, template text>>
updateCommand(pkg, semverInfo) ==
  IF semverInfo.patchUpdate \/ semverInfo.minorUpdate
  THEN <<"npm update ", pkg.name, "">>
  ELSE <<"npm install ", pkg.name, "@latest">>

\* read more URL for major updates
readMoreUrl(pkg, semverInfo) ==
  IF semverInfo.majorUpdate
  THEN getBreakingChangeUrl(pkg.name, semverInfo.latestMajor)
  ELSE Undefined

\* the PackageAnalysis returned
packageAnalysis(pkg, advisories, semverInfo, decided) ==
  [package |-> pkg,
   priority |-> decided.priority,
   reason |-> decided.reason,
   whyItMatters |-> decided.whyItMatters,
   advisories |-> advisories,
   breakingChanges |-> semverInfo.majorUpdate,
   breakingChangeInfo |-> breakingChangeInfo(pkg, semverInfo),
   majorUpdate |-> semverInfo.majorUpdate,
   minorUpdate |-> semverInfo.minorUpdate,
   patchUpdate |-> semverInfo.patchUpdate,
   updateCommand |-> updateCommand(pkg, semverInfo),
   readMoreUrl |-> readMoreUrl(pkg, semverInfo),
   isDevDependency |-> isDevDep(pkg),
   riskScore |-> riskScore(pkg, advisories, semverInfo),
   effort |-> effort(pkg, semverInfo)]

classify(pkg, advisories, semverInfo) ==
  packageAnalysis(pkg, advisories, semverInfo,
                  priorityAndReason(pkg, advisories, semverInfo,
                                    breakingChangeInfo(pkg, semverInfo)))

analyzePackage(pkg, advisories) ==
  classify(pkg, advisories, analyzeSemver(pkg))

(***************************************************************************)
(* calculateSummary(analyses)                                              *)
(***************************************************************************)
\* analyses.filter((a) => a.effort === tier).length
effortCount(analyses, tier) ==
  Cardinality({i \in 1..Len(analyses) : analyses[i].effort = tier})

\* a.advisories.filter((adv) => adv.severity === severity).length
severityCount(a, severity) ==
  Cardinality({j \in 1..Len(a.advisories) :
                 a.advisories[j].severity = severity})

\* nums.reduce((sum, n) => sum + n, 0)
RECURSIVE SumSeq(_)
SumSeq(nums) ==
  IF nums = <<>> THEN 0 ELSE Head(nums) + SumSeq(Tail(nums))

\* totalHours, counted in quarters of an hour: high 4 h, medium 1 h, low 0.25 h
totalQuarterHours(analyses) ==
  LET highEffortCount == effortCount(analyses, "high")
      mediumEffortCount == effortCount(analyses, "medium")
      lowEffortCount == effortCount(analyses, "low")
  IN highEffortCount * 16 + mediumEffortCount * 4 + lowEffortCount * 1

\* Math.ceil(q / d) for q >= 0, d > 0
CeilDiv(q, d) == (q + d - 1) \div d

\* variant: Math.floor instead of Math.ceil
effortLabel_floor(q) ==
  IF q < 4 THEN <<"< 1 hour">>
  ELSE IF q < 16 THEN <<"~", q \div 4, " hours">>
  ELSE IF q < 32 THEN <<"~1 day">>
  ELSE <<"~", q \div 32, " days">>

\* the label of a total of q quarter hours
effortLabel(q) ==
  IF q < 4 THEN <<"< 1 hour">>
  ELSE IF q < 16 THEN <<"~", CeilDiv(q, 4), " hours">>
  ELSE IF q < 32 THEN <<"~1 day">>
  ELSE <<"~", CeilDiv(q, 32), " days">>

estimatedEffort(analyses) == effortLabel(totalQuarterHours(analyses))

\* variant: 3 major updates already count as many
recommendation_atLeast3(analyses, nCritical, nHigh, nMajor) ==
  IF nCritical > 0
  THEN <<"Fix ", nCritical, " critical vulnerabilities immediately!">>
  ELSE IF nHigh > 0
  THEN <<"Address ", nHigh, " high severity issues soon.">>
  ELSE IF nMajor >= 3
  THEN <<"", nMajor,
         " major updates available. Consider updating one at a time.">>
  ELSE IF Len(analyses) = 0
  THEN <<"All packages are up to date!">>
  ELSE <<"No urgent updates. Run 'npm update' for safe updates.">>

\* variant: no message of its own for an empty run
recommendation_noEmptyCase(analyses, nCritical, nHigh, nMajor) ==
  IF nCritical > 0
  THEN <<"Fix ", nCritical, " critical vulnerabilities immediately!">>
  ELSE IF nHigh > 0
  THEN <<"Address ", nHigh, " high severity issues soon.">>
  ELSE IF nMajor > 3
  THEN <<"", nMajor,
         " major updates available. Consider updating one at a time.">>
  ELSE <<"No urgent updates. Run 'npm update' for safe updates.">>

recommendation(analyses, nCritical, nHigh, nMajor) ==
  IF nCritical > 0
  THEN <<"Fix ", nCritical, " critical vulnerabilities immediately!">>
  ELSE IF nHigh > 0
  THEN <<"Address ", nHigh, " high severity issues soon.">>
  ELSE IF nMajor > 3
  THEN <<"", nMajor,
         " major updates available. Consider updating one at a time.">>
  ELSE IF Len(analyses) = 0
  THEN <<"All packages are up to date!">>
  ELSE <<"No urgent updates. Run 'npm update' for safe updates.">>

totalVulnerabilities(analyses) ==
  SumSeq([i \in 1..Len(analyses) |-> Len(analyses[i].advisories)])

criticalVulnerabilities(analyses) ==
  SumSeq([i \in 1..Len(analyses) |-> severityCount(analyses[i], "critical")])

highVulnerabilities(analyses) ==
  SumSeq([i \in 1..Len(analyses) |-> severityCount(analyses[i], "high")])

majorUpdatesAvailable(analyses) ==
  Cardinality({i \in 1..Len(analyses) : analyses[i].majorUpdate})

calculateSummary(analyses) ==
  [totalVulnerabilities |-> totalVulnerabilities(analyses),
   criticalVulnerabilities |-> criticalVulnerabilities(analyses),
   highVulnerabilities |-> highVulnerabilities(analyses),
   majorUpdatesAvailable |-> majorUpdatesAvailable(analyses),
   estimatedEffort |-> estimatedEffort(analyses),
   recommendation |-> recommendation(analyses,
                                     criticalVulnerabilities(analyses),
                                     highVulnerabilities(analyses),
                                     majorUpdatesAvailable(analyses))]

(***************************************************************************)
(* calculateSecurityScore(analyses)                                        *)
(***************************************************************************)
\* variant: a low advisory deducts nothing
deduction_lowFree(severity) ==
  CASE severity = "critical" -> 25
    [] severity = "high" -> 15
    [] severity = "moderate" -> 5
    [] OTHER -> 0

\* the switch on advisory.severity
deduction(severity) ==
  CASE severity = "critical" -> 25
    [] severity = "high" -> 15
    [] severity = "moderate" -> 5
    [] severity = "low" -> 2
    [] OTHER -> 0

RECURSIVE advisoryDeductions(_)
advisoryDeductions(advisories) ==
  IF advisories = <<>> THEN 0
  ELSE deduction(Head(advisories).severity)
       + advisoryDeductions(Tail(advisories))

deductions(analyses) ==
  SumSeq([i \in 1..Len(analyses) |-> advisoryDeductions(analyses[i].advisories)])

Max(a, b) == IF a >= b THEN a ELSE b

\* variant: no floor at 0
calculateSecurityScore_noFloor(analyses) ==
  IF Len(analyses) = 0 THEN 100
  ELSE 100 - deductions(analyses)

calculateSecurityScore(analyses) ==
  IF Len(analyses) = 0 THEN 100
  ELSE Max(0, 100 - deductions(analyses))

(***************************************************************************)
(* analyzePackages                                                         *)
(***************************************************************************)
\* outdated.map((pkg) => analyzePackage(pkg, advisories.get(pkg.name) || []))
analyze(outdated, advisories) ==
  [i \in 1..Len(outdated) |->
     analyzePackage(outdated[i],
                    IF outdated[i].name \in DOMAIN advisories
                    THEN advisories[outdated[i].name]
                    ELSE <<>>)]

\* variant: the comparator is a.riskScore - b.riskScore (lowest first)
InOrder_ascending(a, b) == a.riskScore - b.riskScore <= 0

\* sortByRisk: b.riskScore - a.riskScore <= 0 keeps a before b
InOrder(a, b) == b.riskScore - a.riskScore <= 0

\* Array.prototype.sort(sortByRisk) is stable: x goes behind every element
\* it does not have to precede
RECURSIVE Insert(_, _)
Insert(sorted, x) ==
  IF sorted = <<>> THEN <<x>>
  ELSE IF InOrder(Head(sorted), x)
       THEN <<Head(sorted)>> \o Insert(Tail(sorted), x)
       ELSE <<x>> \o sorted

RECURSIVE Sort(_)
Sort(s) ==
  IF s = <<>> THEN <<>>
  ELSE Insert(Sort(SubSeq(s, 1, Len(s) - 1)), s[Len(s)])

\* variant: the skip bucket is never filled
bucket_noSkip(analyses, p) ==
  Sort(SelectSeq(analyses, LAMBDA a : a.priority = p /\ p # "skip"))

\* analyses.filter((a) => a.priority === p).sort(sortByRisk)
bucket(analyses, p) ==
  Sort(SelectSeq(analyses, LAMBDA a : a.priority = p))

\* the AnalysisResult (the timestamp, new Date(), is left out)
analysisResult(analyses) ==
  [critical |-> bucket(analyses, "critical"),
   important |-> bucket(analyses, "important"),
   safe |-> bucket(analyses, "safe"),
   skip |-> bucket(analyses, "skip"),
   totalPackages |-> Len(analyses),
   securityScore |-> calculateSecurityScore(analyses),
   summary |-> calculateSummary(analyses)]

analyzePackages(outdated, advisories) ==
  analysisResult(analyze(outdated, advisories))

(***************************************************************************)
(* Libyear metrics (libyear.ts).  The registry is what `npm view` answers: *)
(* reg[name] holds the publish times (`npm view name time`) and the        *)
(* version list (`npm view name versions`), each with a flag telling       *)
(* whether that command succeeds; a name outside DOMAIN reg fails both.    *)
(* A publish time is new Date(iso).getTime() counted in hours, a day is    *)
(* HoursPerDay of them.  Years are kept exact as a number of days over     *)
(* 365; the rounded fields totalLibyears, avgLibyears and maxLibyears are  *)
(* counted in hundredths of a year.                                        *)
(***************************************************************************)
HoursPerDay == 24

\* `npm view name time --json` succeeds
TimeOk(reg, name) == name \in DOMAIN reg /\ reg[name].timeOk

\* `npm view name versions --json` succeeds
VersionsOk(reg, name) == name \in DOMAIN reg /\ reg[name].versionsOk

\* the publish times of a package: from the cache, else from the registry,
\* else {} when the lookup fails
getPackageTimes(cache, reg, name) ==
  IF name \in DOMAIN cache THEN cache[name]
  ELSE IF TimeOk(reg, name) THEN reg[name].time
  ELSE <<>>

\* packageTimeCache after getPackageTimes(name): only a successful lookup
\* is stored
cacheAfter(cache, reg, name) ==
  IF name \notin DOMAIN cache /\ TimeOk(reg, name)
  THEN [n \in DOMAIN cache \cup {name} |->
          IF n = name THEN reg[name].time ELSE cache[n]]
  ELSE cache

\* packageTimeCache after the first i packages were aged
RECURSIVE cacheAt(_, _, _, _)
cacheAt(packages, cache, reg, i) ==
  IF i = 0 THEN cache
  ELSE cacheAfter(cacheAt(packages, cache, reg, i - 1), reg, packages[i].name)

\* versions.indexOf(version), counted from 1; 0 when absent
RECURSIVE IndexOf(_, _, _)
IndexOf(versions, version, i) ==
  IF i > Len(versions) THEN 0
  ELSE IF versions[i] = version THEN i
  ELSE IndexOf(versions, version, i + 1)

releasesBetween(currentIdx, latestIdx) ==
  IF currentIdx = 0 \/ latestIdx = 0 THEN 0
  ELSE Max(0, latestIdx - currentIdx)

countReleasesBetween(reg, name, current, latest) ==
  IF ~VersionsOk(reg, name) THEN 0
  ELSE releasesBetween(IndexOf(reg[name].versions, current, 1),
                       IndexOf(reg[name].versions, latest, 1))

\* times[version] ? new Date(times[version]) : undefined, as a sequence of
\* at most one time
publishDate(times, version) ==
  IF version \in DOMAIN times THEN <<times[version]>> ELSE <<>>

\* Math.floor of the difference in days when both dates are known
daysOutdated(currentPublishDate, latestPublishDate) ==
  IF currentPublishDate # <<>> /\ latestPublishDate # <<>>
  THEN (latestPublishDate[1] - currentPublishDate[1]) \div HoursPerDay
  ELSE 0

\* variant: the difference in days as it is, without Math.max(0, ...)
packageAge_signed(pkg, currentPublishDate, latestPublishDate, releasesBehind) ==
  [packageName |-> pkg.name,
   currentVersion |-> pkg.current,
   latestVersion |-> pkg.latest,
   currentPublishDate |-> currentPublishDate,
   latestPublishDate |-> latestPublishDate,
   daysOutdated |-> daysOutdated(currentPublishDate, latestPublishDate),
   yearsOutdated |->
     [days |-> daysOutdated(currentPublishDate, latestPublishDate),
      per |-> 365],
   releasesBehind |-> releasesBehind]

packageAge(pkg, currentPublishDate, latestPublishDate, releasesBehind) ==
  [packageName |-> pkg.name,
   currentVersion |-> pkg.current,
   latestVersion |-> pkg.latest,
   currentPublishDate |-> currentPublishDate,
   latestPublishDate |-> latestPublishDate,
   daysOutdated |-> Max(0, daysOutdated(currentPublishDate, latestPublishDate)),
   yearsOutdated |->
     [days |-> Max(0, daysOutdated(currentPublishDate, latestPublishDate)),
      per |-> 365],
   releasesBehind |-> releasesBehind]

\* calculatePackageAge with the times getPackageTimes returned
calculatePackageAge(pkg, times, reg) ==
  packageAge(pkg, publishDate(times, pkg.current),
             publishDate(times, pkg.latest),
             countReleasesBetween(reg, pkg.name, pkg.current, pkg.latest))

\* packages.map(calculatePackageAge), the cache filling up on the way
packageAges(packages, cache, reg) ==
  [i \in 1..Len(packages) |->
     calculatePackageAge(packages[i],
                         getPackageTimes(cacheAt(packages, cache, reg, i - 1),
                                         reg, packages[i].name),
                         reg)]

\* execSync calls of calculatePackageAge for the i-th package: one for the
\* versions, one for the times unless they are cached
RECURSIVE lookupsOf(_, _, _, _)
lookupsOf(packages, cache, reg, i) ==
  IF i = 0 THEN 0
  ELSE lookupsOf(packages, cache, reg, i - 1) + 1
       + (IF packages[i].name \in DOMAIN cacheAt(packages, cache, reg, i - 1)
          THEN 0 ELSE 1)

\* index just after the dot-separated piece of s that starts at i
RECURSIVE PieceEnd(_, _)
PieceEnd(s, i) ==
  IF i > Len(s) THEN i
  ELSE IF s[i] = "." THEN i ELSE PieceEnd(s, i + 1)

\* Number(s[i..j-1]) as a set: {n} for a number, {} for NaN.  The empty
\* string is 0, a digit string its value, anything else in the versions
\* considered here is NaN.
Number(s, i, j) ==
  IF \A k \in i..(j - 1) : IsDigit(s[k]) THEN {NumVal(s, i, j)} ELSE {}

\* version.split('.').map(Number)[0]
majorOf(version) == Number(version, 1, PieceEnd(version, 1))

\* version.split('.').map(Number)[1], undefined (never greater or smaller
\* than anything) when there is no second piece
minorOf(version) ==
  IF PieceEnd(version, 1) > Len(version) THEN {}
  ELSE Number(version, PieceEnd(version, 1) + 1,
              PieceEnd(version, PieceEnd(version, 1) + 1))

\* a > b on numbers that may be NaN or undefined
Greater(a, b) == \E x \in a, y \in b : x > y

\* the counter the loop over the packages increments for pkg
behind(pkg) ==
  IF Greater(majorOf(pkg.latest), majorOf(pkg.current)) THEN "major"
  ELSE IF Greater(minorOf(pkg.latest), minorOf(pkg.current)) THEN "minor"
  ELSE "patch"

behindCount(packages, kind) ==
  Cardinality({i \in 1..Len(packages) : behind(packages[i]) = kind})

totalDays(ages) == SumSeq([i \in 1..Len(ages) |-> ages[i].daysOutdated])

\* ages.reduce((max, a) => a.yearsOutdated > max.yearsOutdated ? a : max)
\* over the first i ages
RECURSIVE maxAge(_, _)
maxAge(ages, i) ==
  IF i = 1 THEN ages[1]
  ELSE IF ages[i].yearsOutdated.days > maxAge(ages, i - 1).yearsOutdated.days
       THEN ages[i]
  ELSE maxAge(ages, i - 1)

\* Math.max(...latestDates) over the known latest publish dates of the
\* first i ages, as a sequence of at most one time
RECURSIVE mostRecentUpdate(_, _)
mostRecentUpdate(ages, i) ==
  IF i = 0 THEN <<>>
  ELSE IF ages[i].latestPublishDate = <<>> THEN mostRecentUpdate(ages, i - 1)
  ELSE IF mostRecentUpdate(ages, i - 1) = <<>> THEN ages[i].latestPublishDate
  ELSE <<Max(ages[i].latestPublishDate[1], mostRecentUpdate(ages, i - 1)[1])>>

\* days from the most recent latest release to now; new Date() when no
\* latest publish date is known
pulse(latestDate, now) ==
  IF latestDate = <<>> THEN 0
  ELSE (now - latestDate[1]) \div HoursPerDay

(***************************************************************************)
(* IEEE 754 double arithmetic on positive numbers, as far as the rounded   *)
(* fields need it.  A double is a record [m, e]: m the 53 bits of its      *)
(* significand, most significant first and starting with 1, read as an     *)
(* integer M, and e the exponent, the value being M * 2^e.                 *)
(***************************************************************************)
SignificandBits == 53

\* the binary digits of the integer n, most significant first; <<>> for 0
RECURSIVE IntBits(_)
IntBits(n) == IF n = 0 THEN <<>> ELSE Append(IntBits(n \div 2), n % 2)

\* the integer the first j bits of m denote
RECURSIVE BitsVal(_, _)
BitsVal(m, j) == IF j <= 0 THEN 0 ELSE 2 * BitsVal(m, j - 1) + m[j]

\* the bits of the integer of m plus one (one bit longer on overflow)
RECURSIVE IncBits(_)
IncBits(m) ==
  IF m = <<>> THEN <<1>>
  ELSE IF m[Len(m)] = 0 THEN Append(SubSeq(m, 1, Len(m) - 1), 1)
  ELSE Append(IncBits(SubSeq(m, 1, Len(m) - 1)), 0)

\* k zero bits
Zeros(k) == [i \in 1..k |-> 0]

\* a significand of one bit too many after rounding up: 2^53 is 2^52 * 2
Renormalized(m, e) ==
  IF Len(m) > SignificandBits
  THEN [m |-> SubSeq(m, 1, SignificandBits), e |-> e + 1]
  ELSE [m |-> m, e |-> e]

\* round to nearest, ties to even: the double nearest to B * 2^e (plus a
\* fraction of the last place when sticky), B the integer of bits, which
\* start with 1
RoundToDouble(bits, e, sticky) ==
  IF Len(bits) <= SignificandBits
  THEN [m |-> bits \o Zeros(SignificandBits - Len(bits)),
        e |-> e - (SignificandBits - Len(bits))]
  ELSE IF /\ bits[SignificandBits + 1] = 1
          /\ \/ sticky
             \/ bits[SignificandBits] = 1
             \/ \E i \in (SignificandBits + 2)..Len(bits) : bits[i] = 1
  THEN Renormalized(IncBits(SubSeq(bits, 1, SignificandBits)),
                    e + Len(bits) - SignificandBits)
  ELSE [m |-> SubSeq(bits, 1, SignificandBits),
        e |-> e + Len(bits) - SignificandBits]

\* long division of the integer of bits, times 2^e, by d: bit i is next,
\* rem is the remainder so far and q the quotient bits so far without
\* leading zeros; the division goes on past the last bit until it ends or
\* two bits more than a significand are known
RECURSIVE DivideBits(_, _, _, _, _, _)
DivideBits(bits, i, d, rem, q, e) ==
  IF (i > Len(bits) /\ rem = 0) \/ Len(q) >= SignificandBits + 2
  THEN RoundToDouble(q, e - (IF i > Len(bits) THEN i - 1 - Len(bits) ELSE 0)
                          + (IF i <= Len(bits) THEN Len(bits) - i + 1 ELSE 0),
                     rem # 0)
  ELSE DivideBits(bits, i + 1, d,
                  (2 * rem + (IF i <= Len(bits) THEN bits[i] ELSE 0)) % d,
                  IF q = <<>> /\ (2 * rem + (IF i <= Len(bits) THEN bits[i]
                                                                ELSE 0)) < d
                  THEN <<>>
                  ELSE Append(q, (2 * rem + (IF i <= Len(bits) THEN bits[i]
                                                               ELSE 0)) \div d),
                  e)

\* x / d in doubles, d a small positive integer
Quotient(x, d) == DivideBits(x.m, 1, d, 0, <<>>, x.e)

\* the bits of the integer of m times c: bit i is next, from the last one
RECURSIVE MultiplyBits(_, _, _, _, _)
MultiplyBits(m, i, c, carry, acc) ==
  IF i = 0 THEN IntBits(carry) \o acc
  ELSE MultiplyBits(m, i - 1, c, (m[i] * c + carry) \div 2,
                    <<(m[i] * c + carry) % 2>> \o acc)

\* x * c in doubles, c a small positive integer
Product(x, c) ==
  RoundToDouble(MultiplyBits(x.m, SignificandBits, c, 0, <<>>), x.e, FALSE)

\* the double of a positive integer n
IntDouble(n) == RoundToDouble(IntBits(n), 0, FALSE)

\* Math.round(x): the nearest integer, a half going up; x is below 2^31
MathRound(x) ==
  IF x.e >= 0 THEN BitsVal(x.m, SignificandBits) * 2 ^ x.e
  ELSE IF -x.e > SignificandBits THEN 0
  ELSE BitsVal(x.m, SignificandBits + x.e) + x.m[SignificandBits + x.e + 1]

\* 100 * days / (365 * n) lies exactly halfway between two integers
Halfway(days, n) == (200 * days) % (730 * n) = 365 * n

\* Math.round(((days / 365) / n) * 100), the value in hundredths: n is
\* packages.length for avgLibyears and 1 (no division) for totalLibyears
\* and maxLibyears.  The three roundings of the double operations move the
\* value by less than 10^-9, so they decide the result only when the exact
\* value is halfway (at least 1 / (730 * n) away from it otherwise); there
\* the doubles are worked out.
Hundredths(days, n) ==
  IF days = 0 THEN 0
  ELSE IF Halfway(days, n)
  THEN MathRound(Product(Quotient(Quotient(IntDouble(days), 365), n), 100))
  ELSE (200 * days + 365 * n) \div (730 * n)

\* variant: no clamp at 0
freshnessScore_noFloor(days, majorsBehind) ==
  IF 36500 - 10 * days - 1825 * majorsBehind >= 36500 THEN 100
  ELSE (2 * (36500 - 10 * days - 1825 * majorsBehind) + 365) \div 730

\* Math.round(Math.max(0, Math.min(100, 100 - totalLibyears * 10 -
\* majorsBehind * 5))), computed over 365
freshnessScore(days, majorsBehind) ==
  IF 36500 - 10 * days - 1825 * majorsBehind <= 0 THEN 0
  ELSE IF 36500 - 10 * days - 1825 * majorsBehind >= 36500 THEN 100
  ELSE (2 * (36500 - 10 * days - 1825 * majorsBehind) + 365) \div 730

\* variant: an empty list scores like a list nobody looked at
emptyMetrics_zeroScore ==
  [totalLibyears |-> 0, avgLibyears |-> 0, maxLibyears |-> 0,
   driftDays |-> 0, pulse |-> 0, releasesBehind |-> 0,
   majorsBehind |-> 0, minorsBehind |-> 0, patchesBehind |-> 0,
   freshnessScore |-> 0]

\* the metrics of an empty package list
emptyMetrics ==
  [totalLibyears |-> 0, avgLibyears |-> 0, maxLibyears |-> 0,
   driftDays |-> 0, pulse |-> 0, releasesBehind |-> 0,
   majorsBehind |-> 0, minorsBehind |-> 0, patchesBehind |-> 0,
   freshnessScore |-> 100]

libyearMetrics(packages, ages, now) ==
  [totalLibyears |-> Hundredths(totalDays(ages), 1),
   avgLibyears |-> Hundredths(totalDays(ages), Len(packages)),
   maxLibyears |-> Hundredths(maxAge(ages, Len(ages)).yearsOutdated.days, 1),
   mostOutdated |-> maxAge(ages, Len(ages)).packageName,
   driftDays |-> totalDays(ages),
   pulse |-> pulse(mostRecentUpdate(ages, Len(ages)), now),
   releasesBehind |-> SumSeq([i \in 1..Len(ages) |-> ages[i].releasesBehind]),
   majorsBehind |-> behindCount(packages, "major"),
   minorsBehind |-> behindCount(packages, "minor"),
   patchesBehind |-> behindCount(packages, "patch"),
   freshnessScore |-> freshnessScore(totalDays(ages),
                                     behindCount(packages, "major"))]

\* the metrics calculateLibyearMetrics(packages) returns when the cache
\* holds `cache`, the registry answers `reg` and the clock reads `now`
calculateLibyearMetrics(packages, cache, reg, now) ==
  IF Len(packages) = 0 THEN emptyMetrics
  ELSE libyearMetrics(packages, packageAges(packages, cache, reg), now)

\* the execSync calls of that run
libyearLookups(packages, cache, reg) ==
  IF Len(packages) = 0 THEN 0
  ELSE lookupsOf(packages, cache, reg, Len(packages))

\* packageTimeCache after that run
libyearCache(packages, cache, reg) ==
  IF Len(packages) = 0 THEN cache
  ELSE cacheAt(packages, cache, reg, Len(packages))

(***************************************************************************)
(* The analyze command (cli.ts).  The text of a report is not modelled: a  *)
(* report is the name of the formatter that produced it.                   *)
(***************************************************************************)
\* the switch on options.format
formatOutput(format) ==
  CASE format = "json" -> "formatJsonOutput"
    [] format = "markdown" \/ format = "md" -> "formatMarkdownOutput"
    [] OTHER -> "formatConsoleOutput"

\* variant: critical packages fail the run with or without --ci
ciCheckFails_always(options, analysed) == Len(analysed.critical) > 0

\* options.ci && result.critical.length > 0
ciCheckFails(options, analysed) ==
  options.ci /\ Len(analysed.critical) > 0

(***************************************************************************)
(* Inputs                                                                  *)
(***************************************************************************)
\* most packages npm outdated reports in one run
MaxPkgs == 4

\* most advisories npm audit reports for the package of a one-package run
MaxAdvisories == 2

lodash == <<"l", "o", "d", "a", "s", "h">>
react == <<"r", "e", "a", "c", "t">>
chalk == <<"c", "h", "a", "l", "k">>
eslintPluginReact ==
  <<"e", "s", "l", "i", "n", "t", "-", "p", "l", "u", "g", "i", "n", "-",
    "r", "e", "a", "c", "t">>
webpackCli == <<"w", "e", "b", "p", "a", "c", "k", "-", "c", "l", "i">>
vueRouter == <<"v", "u", "e", "-", "r", "o", "u", "t", "e", "r">>

V4x17x20 == <<"4", ".", "1", "7", ".", "2", "0">>
V4x17x21 == <<"4", ".", "1", "7", ".", "2", "1">>
Vv4x18 == <<"v", "4", ".", "1", "8">>
V5beta == <<"5", ".", "0", ".", "0", "-", "b", "e", "t", "a", ".", "1">>
V17x0x2 == <<"1", "7", ".", "0", ".", "2">>
V18x2x0 == <<"1", "8", ".", "2", ".", "0">>
VNA == <<"N", "/", "A">>
\* 2^53 as major version
VUnsafe ==
  <<"9", "0", "0", "7", "1", "9", "9", "2", "5", "4", "7", "4", "0", "9",
    "9", "2", ".", "0", ".", "0">>

Names == {lodash, react, chalk, eslintPluginReact, vueRouter}

Versions ==
  {V4x17x20, V4x17x21, Vv4x18, V5beta, V17x0x2, V18x2x0, VNA, VUnsafe}

Types == {"dependencies", "devDependencies", "peerDependencies"}

Severities == {"critical", "high", "moderate", "low"}

\* the advisories npm audit may report
Critical == [severity |-> "critical", title |-> "Remote Code Execution"]
High == [severity |-> "high", title |-> "Prototype Pollution"]
Moderate == [severity |-> "moderate", title |-> "Inefficient Regular Expression"]
Low == [severity |-> "low", title |-> "Security vulnerability detected"]

Advisories == {Critical, High, Moderate, Low}

Pkg(n, c, l, t) == [name |-> n, current |-> c, latest |-> l, type |-> t]

\* sequences over S of length at most n
SeqsUpTo(S, n) == UNION {[1..k -> S] : k \in 0..n}

\* the packages of the several-package runs: per name, the facts npm
\* outdated may report for it; names are reported in this order
RunPool ==
  << {Pkg(lodash, V4x17x20, V4x17x21, "dependencies"),
      Pkg(lodash, V4x17x20, Vv4x18, "devDependencies")},
     {Pkg(react, V17x0x2, V18x2x0, "dependencies"),
      Pkg(react, V17x0x2, V18x2x0, "devDependencies")},
     {Pkg(eslintPluginReact, V4x17x20, V17x0x2, "devDependencies"),
      Pkg(eslintPluginReact, VNA, V18x2x0, "peerDependencies")},
     {Pkg(chalk, V4x17x21, V5beta, "dependencies"),
      Pkg(chalk, V4x17x20, V17x0x2, "dependencies")},
     {Pkg(webpackCli, V4x17x21, V5beta, "dependencies"),
      Pkg(webpackCli, V4x17x20, Vv4x18, "dependencies")} >>

\* the advisory lists npm audit may report for a package of such a run
RunAdvisoryLists ==
  {<<Critical, Critical>>, <<Moderate, Low>>, <<High>>}

Absent == [absent |-> TRUE]

\* the packages picked by choice, in the order of the pool
RECURSIVE Picked(_, _)
Picked(choice, i) ==
  IF i > Len(RunPool) THEN <<>>
  ELSE (IF choice[i] = Absent THEN <<>> ELSE <<choice[i]>>)
       \o Picked(choice, i + 1)

(***************************************************************************)
(* State: the outdated packages and the advisory map the run reads         *)
(* (getOutdatedPackages(), getSecurityAdvisories()) and the AnalysisResult *)
(* it returns (Null before the run).                                       *)
(*                                                                         *)
(* invocation: the options of the analyze command; cli: the position of    *)
(* its action callback (pc), what it printed (stdout: the report and the   *)
(* notices, in order), the report it saved (file, at most one), the state  *)
(* of the spinner and the exit status of the process.                      *)
(*                                                                         *)
(* registry: what npm view answers; packageTimeCache: the module-level     *)
(* cache of libyear.ts; lookups: the execSync calls libyear.ts made;       *)
(* metrics: the LibyearMetrics calculateLibyearMetrics returned (Null      *)
(* before the run); ageCalls: the calls of calculatePackageAge from        *)
(* outside so far, each with the PackageAge it returned and the number of  *)
(* execSync calls it made.                                                 *)
(*                                                                         *)
(* query: a lookup in the breaking changes table, its arguments and what   *)
(* the three lookup functions returned (Null values before the lookup).    *)
(*                                                                         *)
(* healthCache: the module-level cache of health.ts; healthCalls: the      *)
(* calls of getPackageHealth so far, each with its name, the value it      *)
(* returned and the number of execSync calls it made.                      *)
(***************************************************************************)
VARIABLES outdated, advisories, result, invocation, cli,
          registry, packageTimeCache, lookups, metrics, ageCalls,
          query, healthCache, healthCalls

vars ==
  <<outdated, advisories, result, invocation, cli,
    registry, packageTimeCache, lookups, metrics, ageCalls,
    query, healthCache, healthCalls>>

tableVars == <<query>>

healthVars == <<healthCache, healthCalls>>

\* no lookup in the breaking changes table
TableIdle == query = Null

\* getPackageHealth was never called: the cache is empty
HealthIdle == healthCache = <<>> /\ healthCalls = <<>>

cliVars == <<invocation, cli>>

libyearVars == <<registry, packageTimeCache, lookups, metrics, ageCalls>>

\* the analyze command is not running
CliIdle == invocation = Null /\ cli = Null

\* no libyear run, nothing cached
LibyearIdle ==
  /\ registry = <<>>
  /\ packageTimeCache = <<>>
  /\ lookups = 0
  /\ metrics = Null
  /\ ageCalls = <<>>

\* a run over one package, with any name, versions, type and advisories
InitOne ==
  /\ \E n \in Names, c \in Versions, l \in Versions, t \in Types :
       outdated = <<Pkg(n, c, l, t)>>
  /\ \E advs \in SeqsUpTo(Advisories, MaxAdvisories) :
       advisories = IF advs = <<>> THEN <<>>
                    ELSE [n \in {outdated[1].name} |-> advs]
  /\ result = Null

\* a run over several packages of the pool; the map holds an entry (never
\* an empty list) for some of them
InitRun ==
  /\ \E choice \in [1..Len(RunPool) ->
                      {Absent} \cup UNION {RunPool[i] : i \in 1..Len(RunPool)}] :
       /\ \A i \in 1..Len(RunPool) :
            choice[i] = Absent \/ choice[i] \in RunPool[i]
       /\ outdated = Picked(choice, 1)
  /\ Len(outdated) <= MaxPkgs
  /\ \E vulnerable \in SUBSET {outdated[i].name : i \in 1..Len(outdated)} :
       advisories \in [vulnerable -> RunAdvisoryLists]
  /\ result = Null

\* a run in a project with no outdated package; npm audit may still report
\* advisories for installed packages, which the run never looks up
InitNoneOutdated ==
  /\ outdated = <<>>
  /\ \E vulnerable \in SUBSET {webpackCli, vueRouter} :
       advisories \in [vulnerable -> RunAdvisoryLists]
  /\ result = Null

Init ==
  /\ InitOne \/ InitRun \/ InitNoneOutdated
  /\ CliIdle
  /\ LibyearIdle
  /\ TableIdle
  /\ HealthIdle

\* the names looked up in the breaking changes table: lodash (entry for
\* major 5), react (18 and 19), esbuild (0) and chalk (no entry)
esbuild == <<"e", "s", "b", "u", "i", "l", "d">>

TableNames == {lodash, react, esbuild, chalk}

\* highest major number looked up
MaxMajor == 20

\* a lookup with any name of TableNames and any two majors up to MaxMajor
InitTable ==
  /\ outdated = <<>>
  /\ advisories = <<>>
  /\ result = Null
  /\ CliIdle
  /\ LibyearIdle
  /\ HealthIdle
  /\ \E n \in TableNames, c \in 0..MaxMajor, l \in 0..MaxMajor :
       query = [pkgName |-> n, currentMajor |-> c, latestMajor |-> l,
                returned |-> <<>>]

\* the three lookups analyzePackage makes for a package
LookupBreakingChanges ==
  /\ query.returned = <<>>
  /\ query' =
       [query EXCEPT !.returned =
          <<[hasKnownBreakingChanges |->
               hasKnownBreakingChanges(query.pkgName, query.currentMajor,
                                       query.latestMajor),
             getBreakingChangeInfo |->
               getBreakingChangeInfo(query.pkgName, query.currentMajor,
                                     query.latestMajor),
             estimateUpdateEffort |->
               estimateUpdateEffort(query.pkgName, query.currentMajor,
                                    query.latestMajor)]>>]
  /\ UNCHANGED <<outdated, advisories, result, cliVars, libyearVars,
                 healthVars>>

NextTable == LookupBreakingChanges

SpecTable == InitTable /\ [][NextTable]_vars

\* the packages of the libyear runs
V4x18x0 == <<"4", ".", "1", "8", ".", "0">>

VBetween == <<"4", ".", "1", "7", ".", "2", "0", "-", "r", "c">>

LibyearPool ==
  {Pkg(lodash, V4x17x20, V4x18x0, "dependencies"),
   Pkg(react, V17x0x2, V18x2x0, "dependencies"),
   Pkg(chalk, V4x17x20, V4x17x21, "devDependencies"),
   Pkg(eslintPluginReact, VNA, V18x2x0, "peerDependencies")}

\* most packages handed to calculateLibyearMetrics
MaxLibyearPkgs == 2

\* the publish time of a current version, in hours
Published == 400000

\* what `npm view name time` may answer for a package: nothing (the command
\* fails), the latest version released 400 days and 23 hours, or 4000 days,
\* after the current one, or 36 hours before it, or only the latest version
TimeAnswers == {"fails", "later", "muchLater", "earlier", "latestOnly"}

\* what `npm view name versions` may answer: nothing (the command fails) or
\* a list with one version between the current and the latest one
VersionAnswers == {"fails", "listed"}

timeAnswer(pkg, answer) ==
  CASE answer = "later" ->
         [v \in {pkg.current, pkg.latest} |->
            IF v = pkg.current THEN Published
            ELSE Published + 400 * HoursPerDay + 23]
    [] answer = "muchLater" ->
         [v \in {pkg.current, pkg.latest} |->
            IF v = pkg.current THEN Published
            ELSE Published + 4000 * HoursPerDay]
    [] answer = "earlier" ->
         [v \in {pkg.current, pkg.latest} |->
            IF v = pkg.current THEN Published ELSE Published - 36]
    [] answer = "latestOnly" ->
         [v \in {pkg.latest} |-> Published + 400 * HoursPerDay + 23]
    [] OTHER -> <<>>

\* the registry entry of a package
View(pkg, time, versions) ==
  [timeOk |-> time # "fails",
   time |-> timeAnswer(pkg, time),
   versionsOk |-> versions # "fails",
   versions |-> IF versions = "listed"
                THEN <<pkg.current, VBetween, pkg.latest>> ELSE <<>>]

\* the pool package of a name
PoolPkg(name) == CHOOSE p \in LibyearPool : p.name = name

\* the names the registry is asked about in a run; lodash in a run over no
\* package, where an earlier run may have cached its times
Asked(packages) ==
  IF packages = <<>> THEN {lodash}
  ELSE {packages[i].name : i \in 1..Len(packages)}

\* the times a run over the names of the registry leaves in the cache
Cached(reg) ==
  [n \in {m \in DOMAIN reg : reg[m].timeOk} |-> reg[n].time]

\* what the clock may read, in hours: 500 days after Published, or 2 days
\* after it (before the later releases)
Clock == {Published + 500 * HoursPerDay, Published + 2 * HoursPerDay}

\* a libyear run over up to MaxLibyearPkgs packages of the pool, in a
\* process whose cache is empty or was filled by an earlier run
InitLibyear ==
  /\ outdated \in SeqsUpTo(LibyearPool, MaxLibyearPkgs)
  /\ advisories = <<>>
  /\ result = Null
  /\ CliIdle
  /\ TableIdle
  /\ HealthIdle
  /\ \E answers \in [Asked(outdated) -> TimeAnswers \X VersionAnswers] :
       registry = [n \in Asked(outdated) |->
                     View(PoolPkg(n), answers[n][1], answers[n][2])]
  /\ packageTimeCache \in {<<>>, Cached(registry)}
  /\ lookups = 0
  /\ metrics = Null
  /\ ageCalls = <<>>

\* const metrics = calculateLibyearMetrics(outdated)
CalculateLibyearMetrics ==
  /\ metrics = Null
  /\ \E now \in Clock :
       metrics' = calculateLibyearMetrics(outdated, packageTimeCache,
                                          registry, now)
  /\ packageTimeCache' = libyearCache(outdated, packageTimeCache, registry)
  /\ lookups' = lookups + libyearLookups(outdated, packageTimeCache, registry)
  /\ UNCHANGED <<outdated, advisories, result, registry, ageCalls, cliVars,
               tableVars, healthVars>>

\* most calls of calculatePackageAge from outside in a process
MaxAgeCalls == 1

\* such calls are followed in the processes whose libyear run is over at
\* most this many packages
MaxAgeRunPkgs == 1

\* the execSync calls of calculatePackageAge for a package of that name:
\* one for the versions, one for the times unless they are cached
ageLookups(cache, name) == IF name \in DOMAIN cache THEN 1 ELSE 2

\* calculatePackageAge(pkg), called on its own for a package the registry
\* is asked about
CalculatePackageAge ==
  /\ Len(ageCalls) < MaxAgeCalls
  /\ Len(outdated) <= MaxAgeRunPkgs
  /\ \E name \in DOMAIN registry :
       /\ ageCalls' =
            Append(ageCalls,
                   [returned |->
                      calculatePackageAge(
                        PoolPkg(name),
                        getPackageTimes(packageTimeCache, registry, name),
                        registry),
                    lookups |-> ageLookups(packageTimeCache, name)])
       /\ packageTimeCache' = cacheAfter(packageTimeCache, registry, name)
       /\ lookups' = lookups + ageLookups(packageTimeCache, name)
  /\ UNCHANGED <<outdated, advisories, result, registry, metrics, cliVars,
               tableVars, healthVars>>

NextLibyear ==
  \/ CalculateLibyearMetrics
  \/ CalculatePackageAge

SpecLibyear == InitLibyear /\ [][NextLibyear]_vars

\* most packages npm outdated reports to the analyze command
MaxCliPkgs == 2

\* the options of the analyze command: --format (default console),
\* --output, --ci.  options.output is a sequence of at most one string:
\* <<>> when the option is not given (undefined), else the path, which may
\* be the empty string or any other text, 'undefined' included
Invocations ==
  [format : {"console", "json", "md"},
   output : {<<>>, <<"">>, <<"report.md">>, <<"undefined">>},
   ci : BOOLEAN]

\* if (options.output): undefined and the empty string are falsy, every
\* other string is truthy
outputGiven(options) == options.output # <<>> /\ options.output[1] # ""

\* the analyze command starts: the spinner spins, nothing is printed yet
InitCli ==
  /\ InitRun
  /\ Len(outdated) <= MaxCliPkgs
  /\ invocation \in Invocations
  /\ cli = [pc |-> "start", spinner |-> "Analyzing packages...",
            stdout |-> <<>>, file |-> <<>>, exitCode |-> 0]
  /\ LibyearIdle
  /\ TableIdle
  /\ HealthIdle

\* !fs.existsSync('package.json'): spinner.fail, process.exit(1)
NoPackageJson ==
  /\ cli.pc = "start"
  /\ cli' = [cli EXCEPT !.pc = "exited",
                        !.spinner = "No package.json found in current directory",
                        !.exitCode = 1]
  /\ UNCHANGED <<outdated, advisories, result, invocation, libyearVars,
               tableVars, healthVars>>

\* package.json exists: result = analyzePackages(), spinner.succeed
RunAnalysis ==
  /\ cli.pc = "start"
  /\ result' = analyzePackages(outdated, advisories)
  /\ cli' = [cli EXCEPT !.pc = "analyzed", !.spinner = "Analysis complete"]
  /\ UNCHANGED <<outdated, advisories, invocation, libyearVars,
               tableVars, healthVars>>

\* no --output (or an empty one): console.log(output)
PrintReport ==
  /\ cli.pc = "analyzed"
  /\ ~outputGiven(invocation)
  /\ cli' = [cli EXCEPT !.pc = "reported",
                        !.stdout = Append(@, formatOutput(invocation.format))]
  /\ UNCHANGED <<outdated, advisories, result, invocation, libyearVars,
               tableVars, healthVars>>

\* --output: fs.writeFileSync(options.output, output), console.log(saved)
SaveReport ==
  /\ cli.pc = "analyzed"
  /\ outputGiven(invocation)
  /\ cli' = [cli EXCEPT !.pc = "reported",
                        !.file = <<formatOutput(invocation.format)>>,
                        !.stdout = Append(@, "Report saved")]
  /\ UNCHANGED <<outdated, advisories, result, invocation, libyearVars,
               tableVars, healthVars>>

\* --output and fs.writeFileSync throws: the catch block runs
\* spinner.fail('Analysis failed'), console.error, process.exit(1)
SaveFails ==
  /\ cli.pc = "analyzed"
  /\ outputGiven(invocation)
  /\ cli' = [cli EXCEPT !.pc = "exited",
                        !.spinner = "Analysis failed",
                        !.exitCode = 1]
  /\ UNCHANGED <<outdated, advisories, result, invocation, libyearVars,
               tableVars, healthVars>>

\* the CI check fails: console.log, process.exit(1)
CiFails ==
  /\ cli.pc = "reported"
  /\ ciCheckFails(invocation, result)
  /\ cli' = [cli EXCEPT !.pc = "exited",
                        !.stdout = Append(@, "CI check failed"),
                        !.exitCode = 1]
  /\ UNCHANGED <<outdated, advisories, result, invocation, libyearVars,
               tableVars, healthVars>>

\* otherwise the action returns and the process ends with status 0
Returns ==
  /\ cli.pc = "reported"
  /\ ~ciCheckFails(invocation, result)
  /\ cli' = [cli EXCEPT !.pc = "exited"]
  /\ UNCHANGED <<outdated, advisories, result, invocation, libyearVars,
               tableVars, healthVars>>

NextCli ==
  \/ NoPackageJson
  \/ RunAnalysis
  \/ PrintReport
  \/ SaveReport
  \/ SaveFails
  \/ CiFails
  \/ Returns

SpecCli == InitCli /\ [][NextCli]_vars

AnalyzePackages ==
  /\ result = Null
  /\ result' = analyzePackages(outdated, advisories)
  /\ UNCHANGED <<outdated, advisories, cliVars, libyearVars,
               tableVars, healthVars>>

Next == AnalyzePackages

Spec == Init /\ [][Next]_vars

(***************************************************************************)
(* Properties                                                              *)
(***************************************************************************)
Done == result # Null

\* the analyses of the result, bucket by bucket
Buckets == <<"critical", "important", "safe", "skip">>

InBucket(b) == result[b]

AllAnalyses ==
  UNION {{InBucket(Buckets[b])[j] : j \in 1..Len(InBucket(Buckets[b]))} :
           b \in 1..4}

\* the advisories the run read for a package name
AdvisoriesOf(name) ==
  IF name \in DOMAIN advisories THEN advisories[name] ELSE <<>>

\* number of advisories of the given severity over all outdated packages
SeverityCount(sev) ==
  Cardinality(UNION {{<<i, j>> : j \in {k \in 1..Len(AdvisoriesOf(outdated[i].name)) :
                                           AdvisoriesOf(outdated[i].name)[k].severity = sev}} :
                       i \in 1..Len(outdated)})

\* positions <<bucket, index>> of the result that hold the package pkg
PositionsOf(pkg) ==
  {<<b, j>> \in (1..4) \X (1..Len(outdated)) :
     /\ j <= Len(InBucket(Buckets[b]))
     /\ InBucket(Buckets[b])[j].package = pkg}

\* C1: every input package is in exactly one of the four buckets, and the
\* bucket lengths sum to totalPackages, the number of input packages.
C1_BucketPartition ==
  Done =>
    /\ \A i \in 1..Len(outdated) : Cardinality(PositionsOf(outdated[i])) = 1
    /\ Len(result.critical) + Len(result.important)
         + Len(result.safe) + Len(result.skip) = result.totalPackages
    /\ result.totalPackages = Len(outdated)

C1_Witness ==
  /\ Done
  /\ Len(result.critical) > 0 /\ Len(result.important) > 0
  /\ Len(result.safe) > 0 /\ Len(result.skip) > 0

\* C2: a package with at least one critical or high advisory has priority
\* critical, whatever its version delta, known breaking changes and
\* dependency kind.
C2_SecurityFirst ==
  Done =>
    \A a \in AllAnalyses :
      (\E j \in 1..Len(a.advisories) :
         a.advisories[j].severity \in {"critical", "high"})
      => a.priority = "critical"

C2_Witness ==
  /\ Done
  /\ \E a \in AllAnalyses :
       /\ a.advisories = <<Low, High>>
       /\ a.patchUpdate
       /\ a.package.type = "devDependencies"
       /\ a.priority = "critical"

\* C3: the command is npm update <name> exactly for a minor or patch delta
\* and npm install <name>@latest exactly for a major delta.
C3_UpdateCommand ==
  Done =>
    \A a \in AllAnalyses :
      /\ (a.updateCommand = <<"npm update ", a.package.name, "">>)
           <=> (a.minorUpdate \/ a.patchUpdate)
      /\ (a.updateCommand = <<"npm install ", a.package.name, "@latest">>)
           <=> a.majorUpdate
      /\ a.majorUpdate => a.updateCommand[1] # "npm update "

C3_Witness ==
  /\ Done
  /\ \E a, b \in AllAnalyses :
       /\ a.majorUpdate
       /\ a.updateCommand = <<"npm install ", a.package.name, "@latest">>
       /\ b.minorUpdate
       /\ b.updateCommand = <<"npm update ", b.package.name, "">>

\* Scenario A: lodash 4.17.20 -> 4.17.21 with exactly one advisory, of
\* severity high
ScenarioA ==
  /\ Len(outdated) = 1
  /\ outdated[1].name = lodash
  /\ outdated[1].current = V4x17x20
  /\ outdated[1].latest = V4x17x21
  /\ AdvisoriesOf(lodash) = <<High>>

\* C4 as stated: Scenario A gives priority critical, riskScore >= 50 and the
\* command install lodash@latest.
C4_ScenarioA_Install ==
  (Done /\ ScenarioA) =>
    \A a \in AllAnalyses :
      /\ a.priority = "critical"
      /\ a.riskScore >= 50
      /\ a.updateCommand = <<"npm install ", lodash, "@latest">>

\* C4 amended: Scenario A gives priority critical, riskScore >= 50 and the
\* command npm update lodash (the delta is a patch).
C4_ScenarioA_Update ==
  (Done /\ ScenarioA) =>
    /\ Len(result.critical) = 1
    /\ \A a \in AllAnalyses :
         /\ a.priority = "critical"
         /\ a.riskScore >= 50
         /\ a.updateCommand = <<"npm update ", lodash, "">>

C4_Witness ==
  /\ Done /\ ScenarioA
  /\ Len(result.critical) = 1
  /\ result.critical[1].patchUpdate

\* C5: every riskScore is an integer between 0 and 100 inclusive.
C5_RiskScoreRange ==
  Done => \A a \in AllAnalyses : a.riskScore \in 0..100

\* C6: securityScore = max(0, 100 - D), D summing 25 / 15 / 5 / 2 over every
\* advisory of every analysed package (each advisory of a package counts),
\* and the score lies in 0..100.
C6_SecurityScore ==
  Done =>
    LET D == 25 * SeverityCount("critical") + 15 * SeverityCount("high")
               + 5 * SeverityCount("moderate") + 2 * SeverityCount("low")
    IN /\ result.securityScore = (IF 100 - D > 0 THEN 100 - D ELSE 0)
       /\ result.securityScore \in 0..100

C6_Witness ==
  /\ Done
  /\ \E i \in 1..Len(outdated) :
       AdvisoriesOf(outdated[i].name) = <<Critical, Critical>>
  /\ SeverityCount("critical") = 4
  /\ SeverityCount("low") = 1
  /\ result.securityScore = 0

\* the package a, moved to another dependency kind
Twin(a, type) == [a.package EXCEPT !.type = type]

\* C7: without advisories the development dependency scores floor(p / 2)
\* where p is the score of the otherwise identical production dependency;
\* with any advisory the score is not halved.
C7_DevDiscount ==
  Done =>
    \A a \in AllAnalyses :
      /\ (a.advisories = <<>> /\ a.package.type = "devDependencies")
           => a.riskScore
                = analyzePackage(Twin(a, "dependencies"), <<>>).riskScore \div 2
      /\ (a.advisories = <<>> /\ a.package.type = "dependencies")
           => analyzePackage(Twin(a, "devDependencies"), <<>>).riskScore
                = a.riskScore \div 2
      /\ (a.advisories # <<>> /\ a.package.type = "devDependencies")
           => a.riskScore
                = analyzePackage(Twin(a, "dependencies"), a.advisories).riskScore

C7_Witness ==
  /\ Done
  /\ \E a \in AllAnalyses :
       /\ a.advisories = <<>>
       /\ a.package.type = "devDependencies"
       /\ a.minorUpdate
       /\ a.riskScore = 2
       /\ analyzePackage(Twin(a, "dependencies"), <<>>).riskScore = 5

\* C8: all else equal, a package with a critical advisory scores at least
\* as much as the package without advisories.
C8_ScoreMonotone ==
  Done =>
    \A a \in AllAnalyses :
      /\ (\E j \in 1..Len(a.advisories) : a.advisories[j].severity = "critical")
           => a.riskScore >= analyzePackage(a.package, <<>>).riskScore
      /\ (a.advisories = <<>>)
           => \A advs \in {<<Critical>>, <<Low, Critical>>} :
                analyzePackage(a.package, advs).riskScore >= a.riskScore

C8_Witness ==
  /\ Done
  /\ \E a \in AllAnalyses :
       /\ a.advisories = <<Critical>>
       /\ a.package.type = "devDependencies"
       /\ a.majorUpdate
       /\ a.riskScore > analyzePackage(a.package, <<>>).riskScore
       /\ analyzePackage(a.package, <<>>).riskScore > 0

\* number of analysed packages with a major update
MajorCount == Cardinality({a \in AllAnalyses : a.majorUpdate})

\* C9: the recommendation is the first that applies of: a critical advisory
\* -> urgent; a high advisory -> address soon; more than 3 major updates ->
\* update incrementally; no packages -> all up to date; else no urgent
\* updates.
C9_Recommendation ==
  Done =>
    result.summary.recommendation =
      (IF SeverityCount("critical") > 0
       THEN <<"Fix ", SeverityCount("critical"),
              " critical vulnerabilities immediately!">>
       ELSE IF SeverityCount("high") > 0
       THEN <<"Address ", SeverityCount("high"), " high severity issues soon.">>
       ELSE IF MajorCount > 3
       THEN <<"", MajorCount,
              " major updates available. Consider updating one at a time.">>
       ELSE IF Len(outdated) = 0
       THEN <<"All packages are up to date!">>
       ELSE <<"No urgent updates. Run 'npm update' for safe updates.">>)

C9_Witness ==
  /\ Done
  /\ MajorCount = 4
  /\ SeverityCount("moderate") > 0
  /\ result.summary.recommendation =
       <<"", 4, " major updates available. Consider updating one at a time.">>

\* number of analysed packages of an effort tier
EffortCount(tier) == Cardinality({a \in AllAnalyses : a.effort = tier})

\* total effort in quarters of an hour
QuarterHours ==
  16 * EffortCount("high") + 4 * EffortCount("medium") + EffortCount("low")

\* the least n with n * d >= q
Ceil(q, d) == CHOOSE n \in 0..q : n * d >= q /\ (n - 1) * d < q

\* C10: with H = 4 * #high + 1 * #medium + 0.25 * #low hours, the effort is
\* "< 1 hour" for H < 1, ceil(H) hours for 1 <= H < 4, "~1 day" for
\* 4 <= H < 8 and ceil(H / 8) days for H >= 8.
C10_EstimatedEffort ==
  Done =>
    result.summary.estimatedEffort =
      (IF QuarterHours < 4 THEN <<"< 1 hour">>
       ELSE IF QuarterHours < 16 THEN <<"~", Ceil(QuarterHours, 4), " hours">>
       ELSE IF QuarterHours < 32 THEN <<"~1 day">>
       ELSE <<"~", Ceil(QuarterHours, 32), " days">>)

C10_Witness ==
  /\ Done
  /\ QuarterHours > 32
  /\ result.summary.estimatedEffort = <<"~", 2, " days">>

\* C11: when zero packages are outdated the run returns securityScore 100,
\* four empty buckets, totalPackages 0, vulnerability and major-update
\* counts 0 and the all-up-to-date recommendation.
C11_NoneOutdated ==
  (Done /\ Len(outdated) = 0) =>
    /\ result.securityScore = 100
    /\ \A i \in 1..Len(Buckets) : result[Buckets[i]] = <<>>
    /\ result.totalPackages = 0
    /\ result.summary.totalVulnerabilities = 0
    /\ result.summary.criticalVulnerabilities = 0
    /\ result.summary.highVulnerabilities = 0
    /\ result.summary.majorUpdatesAvailable = 0
    /\ result.summary.recommendation = <<"All packages are up to date!">>

\* no package is outdated although the audit reports critical advisories
C11_Witness ==
  /\ Done
  /\ outdated = <<>>
  /\ DOMAIN advisories = {webpackCli, vueRouter}
  /\ advisories[webpackCli] = <<Critical, Critical>>
  /\ result.totalPackages = 0

\* C15: every package of the skip bucket is a development dependency with
\* no advisories; every package of the safe bucket has no advisories and a
\* minor or patch delta, never a major update.
C15_SkipAndSafe ==
  Done =>
    /\ \A i \in 1..Len(result.skip) :
         /\ result.skip[i].package.type = "devDependencies"
         /\ AdvisoriesOf(result.skip[i].package.name) = <<>>
    /\ \A i \in 1..Len(result.safe) :
         /\ AdvisoriesOf(result.safe[i].package.name) = <<>>
         /\ ~analyzeSemver(result.safe[i].package).majorUpdate

\* a run that fills both buckets, with a peer dependency in the safe one
C15_Witness ==
  /\ Done
  /\ Len(result.skip) > 0
  /\ \E i \in 1..Len(result.safe) :
       result.safe[i].package.type = "peerDependencies"

\* some major version in (currentMajor, latestMajor] has a table entry
KnownBreaking(pkg) ==
  \E r \in BREAKING_CHANGES_DB :
    /\ r.name = pkg.name
    /\ r.major > analyzeSemver(pkg).currentMajor
    /\ r.major <= analyzeSemver(pkg).latestMajor

\* S of C16: the security points
S(pkg) ==
  IF \E j \in 1..Len(AdvisoriesOf(pkg.name)) :
       AdvisoriesOf(pkg.name)[j].severity \in {"critical", "high"}
  THEN 80
  ELSE IF AdvisoriesOf(pkg.name) # <<>> THEN 50
  ELSE 0

\* U of C16: the update-type points
U(pkg) ==
  IF analyzeSemver(pkg).majorUpdate
  THEN (IF KnownBreaking(pkg) THEN 30 ELSE 20)
  ELSE IF analyzeSemver(pkg).minorUpdate THEN 5
  ELSE 0

\* C16: riskScore is S + U, halved with integer floor for a development
\* dependency with no advisories; S is 80 with a critical or high advisory,
\* 50 with other advisories, 0 with none; U is 30 for a major update with
\* known breaking changes, 20 for any other major update, 5 for a minor
\* update, 0 for a patch update.
C16_RiskScoreFormula ==
  Done =>
    \A a \in AllAnalyses :
      a.riskScore =
        (IF a.package.type = "devDependencies"
            /\ AdvisoriesOf(a.package.name) = <<>>
         THEN (S(a.package) + U(a.package)) \div 2
         ELSE S(a.package) + U(a.package))

\* production: 50 + 5; development without advisories: floor(5 / 2)
C16_Witness ==
  /\ Done
  /\ \E a \in AllAnalyses :
       /\ S(a.package) = 50 /\ U(a.package) = 5 /\ a.riskScore = 55
  /\ \E a \in AllAnalyses :
       /\ a.package.type = "devDependencies"
       /\ S(a.package) = 0 /\ U(a.package) = 5 /\ a.riskScore = 2

\* C17: with no advisories and a major version delta the priority is skip
\* for a development dependency without a table entry in
\* (currentMajor, latestMajor], and important in every other case.
C17_MajorPriority ==
  Done =>
    \A a \in AllAnalyses :
      (AdvisoriesOf(a.package.name) = <<>> /\ analyzeSemver(a.package).majorUpdate)
        => a.priority =
             (IF a.package.type = "devDependencies" /\ ~KnownBreaking(a.package)
              THEN "skip" ELSE "important")

\* a development dependency whose table entry lies between the two majors,
\* with no entry for the target major
C17_Witness ==
  /\ Done
  /\ \E a \in AllAnalyses :
       /\ a.package.type = "devDependencies"
       /\ a.advisories = <<>>
       /\ a.majorUpdate
       /\ KnownBreaking(a.package)
       /\ ~HasEntry(a.package.name, analyzeSemver(a.package).latestMajor)
       /\ a.priority = "important"

\* C18 as stated: with no advisories and a minor or patch-only delta the
\* priority is safe for a production dependency and skip for every other
\* dependency kind (development or peer).
C18_MinorPatchPriority_NonProductionSkip ==
  Done =>
    \A a \in AllAnalyses :
      (AdvisoriesOf(a.package.name) = <<>> /\ ~analyzeSemver(a.package).majorUpdate)
        => a.priority =
             (IF a.package.type = "dependencies" THEN "safe" ELSE "skip")

\* C18: with no advisories and a minor or patch-only delta the priority is
\* skip for a development dependency and safe for every other dependency
\* kind (production or peer).
C18_MinorPatchPriority ==
  Done =>
    \A a \in AllAnalyses :
      (AdvisoriesOf(a.package.name) = <<>> /\ ~analyzeSemver(a.package).majorUpdate)
        => a.priority =
             (IF a.package.type = "devDependencies" THEN "skip" ELSE "safe")

\* a peer dependency with a minor update and no advisories is safe
C18_Witness ==
  /\ Done
  /\ \E a \in AllAnalyses :
       /\ a.package.type = "peerDependencies"
       /\ a.advisories = <<>>
       /\ a.minorUpdate /\ ~a.majorUpdate
       /\ a.priority = "safe"

\* C19: a package with at least one advisory, all of severity moderate or
\* low, is important whatever its version delta and dependency kind.
C19_LowerSeverityImportant ==
  Done =>
    \A a \in AllAnalyses :
      (/\ AdvisoriesOf(a.package.name) # <<>>
       /\ \A j \in 1..Len(AdvisoriesOf(a.package.name)) :
            AdvisoriesOf(a.package.name)[j].severity \in {"moderate", "low"})
        => a.priority = "important"

\* a development dependency with a patch update and a low advisory
C19_Witness ==
  /\ Done
  /\ \E a \in AllAnalyses :
       /\ a.package.type = "devDependencies"
       /\ a.patchUpdate /\ ~a.minorUpdate /\ ~a.majorUpdate
       /\ a.advisories = <<Low>>
       /\ a.priority = "important"

\* rank of a severity in the order low < moderate < high < critical
Rank(severity) ==
  CASE severity = "low" -> 1
    [] severity = "moderate" -> 2
    [] severity = "high" -> 3
    [] severity = "critical" -> 4

\* the advisories of the highest severity among advs
Highest(advs) ==
  {advs[j] : j \in {k \in 1..Len(advs) :
                      \A m \in 1..Len(advs) :
                        Rank(advs[m].severity) <= Rank(advs[k].severity)}}

\* C20: the reason of a critical package names the severity and the title
\* of an advisory of the highest severity among its advisories, whatever
\* the position of that advisory in the list.
C20_ReasonNamesHighest ==
  Done =>
    \A a \in AllAnalyses :
      a.priority = "critical"
        => \E h \in Highest(AdvisoriesOf(a.package.name)) :
             a.reason = <<"Security vulnerability (", h.severity, "): ", h.title>>

\* the execSync calls of the calls of calculatePackageAge from outside
AgeCallLookups == SumSeq([i \in 1..Len(ageCalls) |-> ageCalls[i].lookups])

\* C12: calculateLibyearMetrics applied to an empty package list performs
\* no lookup (and leaves the cache as it was) and returns freshnessScore
\* 100 with totalLibyears, avgLibyears, maxLibyears, driftDays, pulse,
\* releasesBehind, majorsBehind, minorsBehind and patchesBehind all 0.
C12_EmptyLibyear ==
  (metrics # Null /\ Len(outdated) = 0) =>
    /\ lookups = AgeCallLookups
    /\ packageTimeCache \in {<<>>, Cached(registry)}
    /\ metrics.freshnessScore = 100
    /\ metrics.totalLibyears = 0
    /\ metrics.avgLibyears = 0
    /\ metrics.maxLibyears = 0
    /\ metrics.driftDays = 0
    /\ metrics.pulse = 0
    /\ metrics.releasesBehind = 0
    /\ metrics.majorsBehind = 0
    /\ metrics.minorsBehind = 0
    /\ metrics.patchesBehind = 0

\* a run over no package in a process that has cached times already
C12_Witness ==
  /\ metrics # Null
  /\ outdated = <<>>
  /\ packageTimeCache # <<>>
  /\ lookups = 0
  /\ metrics.freshnessScore = 100

\* analyzePackages() returned: the analysis was successful
Analysed == result # Null

\* the analysis was successful for the command too: nothing was caught and
\* reported as 'Analysis failed'
Successful == Analysed /\ cli.spinner = "Analysis complete"

\* the report was printed or written to the output file
Reported ==
  \/ \E i \in 1..Len(cli.stdout) :
       cli.stdout[i] = formatOutput(invocation.format)
  \/ cli.file = <<formatOutput(invocation.format)>>

\* C14: in the analyze command run with --ci, after a successful analysis
\* the process exits with status 1 if and only if the critical bucket is
\* non-empty, and that exit happens only after the report has been printed
\* or written to the output file; without --ci a successful analysis never
\* exits with status 1 because of critical packages.  (A successful
\* analysis is a run the command does not end as 'Analysis failed': a run
\* whose try block threw, as when writing the output file fails, is caught
\* and reported as failed.)
C14_CiExit ==
  (cli.pc = "exited" /\ Successful) =>
    /\ cli.exitCode = (IF invocation.ci /\ result.critical # <<>> THEN 1 ELSE 0)
    /\ Reported

\* a --ci run with a critical package saved its report, then exited with 1
C14_Witness ==
  /\ cli # Null
  /\ cli.pc = "exited"
  /\ Successful
  /\ invocation.ci
  /\ invocation.output = <<"report.md">>
  /\ Len(result.critical) > 0
  /\ cli.file # <<>>
  /\ cli.stdout = <<"Report saved", "CI check failed">>
  /\ cli.exitCode = 1

\* urgency of a priority in the order critical > important > safe > skip
Urgency(priority) ==
  CASE priority = "critical" -> 4
    [] priority = "important" -> 3
    [] priority = "safe" -> 2
    [] priority = "skip" -> 1

\* C21: riskScore is monotone in priority: of two packages of a run the
\* one with the more urgent priority scores at least as much as the other.
C21_ScoreMonotoneInPriority ==
  Done =>
    \A a \in AllAnalyses, b \in AllAnalyses :
      Urgency(a.priority) > Urgency(b.priority) => a.riskScore >= b.riskScore

\* C22: each of the four buckets is ordered by non-increasing riskScore.
C22_BucketsSorted ==
  Done =>
    \A b \in 1..Len(Buckets) :
      \A i \in 1..(Len(result[Buckets[b]]) - 1) :
        result[Buckets[b]][i].riskScore >= result[Buckets[b]][i + 1].riskScore

\* a bucket of three packages with strictly decreasing scores, whose
\* packages were reported in another order
C22_Witness ==
  /\ Done
  /\ \E b \in 1..Len(Buckets) :
       /\ Len(result[Buckets[b]]) >= 3
       /\ result[Buckets[b]][1].riskScore > result[Buckets[b]][2].riskScore
       /\ result[Buckets[b]][2].riskScore > result[Buckets[b]][3].riskScore
       /\ \E i \in 1..Len(outdated), j \in 1..Len(outdated) :
            /\ i < j
            /\ outdated[i] = result[Buckets[b]][2].package
            /\ outdated[j] = result[Buckets[b]][1].package

\* the major and minor numbers a reader takes from the version strings of
\* the runs; <<>> for "N/A", which holds no number
MajorMinor(version) ==
  CASE version = V4x17x20 -> <<4, 17>>
    [] version = V4x17x21 -> <<4, 17>>
    [] version = Vv4x18 -> <<4, 18>>
    [] version = V5beta -> <<5, 0>>
    [] version = V17x0x2 -> <<17, 0>>
    [] version = V18x2x0 -> <<18, 2>>
    [] OTHER -> <<>>

\* both versions of the package hold a version number
Coercible(pkg) == MajorMinor(pkg.current) # <<>> /\ MajorMinor(pkg.latest) # <<>>

\* the update kind the rule of C23 gives for a package with two version
\* numbers
KindOf(pkg) ==
  IF MajorMinor(pkg.latest)[1] > MajorMinor(pkg.current)[1] THEN "major"
  ELSE IF MajorMinor(pkg.latest)[2] > MajorMinor(pkg.current)[2] THEN "minor"
  ELSE "patch"

\* the flags of an analysis that are true
Flags(a) ==
  {f \in {"major", "minor", "patch"} :
     \/ f = "major" /\ a.majorUpdate
     \/ f = "minor" /\ a.minorUpdate
     \/ f = "patch" /\ a.patchUpdate}

\* C23: analyzeSemver sets exactly one of majorUpdate, minorUpdate and
\* patchUpdate: majorUpdate iff the latest major is greater than the
\* current major; otherwise minorUpdate iff the latest minor is greater
\* than the current minor; otherwise patchUpdate.
C23_ExactlyOneKind ==
  Done =>
    \A a \in AllAnalyses :
      /\ Cardinality(Flags(a)) = 1
      /\ Coercible(a.package) => Flags(a) = {KindOf(a.package)}
      /\ Flags(a) = Flags(analyzeSemver(a.package))

\* a major update whose minor number grows too, a minor update and a patch
\* update, each with one flag
C23_Witness ==
  /\ Done
  /\ \E a \in AllAnalyses :
       /\ a.package.current = V17x0x2 /\ a.package.latest = V18x2x0
       /\ Flags(a) = {"major"}
  /\ \E a \in AllAnalyses :
       /\ a.package.current = V4x17x20 /\ a.package.latest = Vv4x18
       /\ Flags(a) = {"minor"}
  /\ \E a \in AllAnalyses :
       /\ a.package.current = V4x17x20 /\ a.package.latest = V4x17x21
       /\ Flags(a) = {"patch"}

\* C24: when the current or the latest version cannot be coerced,
\* analyzeSemver returns patchUpdate alone with currentMajor = latestMajor
\* = 0, and the package, if it has no advisories, is neither critical nor
\* important and has riskScore 0.
C24_UncoercibleFallback ==
  Done =>
    \A a \in AllAnalyses :
      ~Coercible(a.package) =>
        /\ analyzeSemver(a.package).currentMajor = 0
        /\ analyzeSemver(a.package).latestMajor = 0
        /\ Flags(analyzeSemver(a.package)) = {"patch"}
        /\ Flags(a) = {"patch"}
        /\ AdvisoriesOf(a.package.name) = <<>> =>
             /\ a.priority \in {"safe", "skip"}
             /\ a.riskScore = 0

\* a package whose current version is "N/A" and whose latest version is a
\* higher major than nothing: a safe patch update with score 0
C24_Witness ==
  /\ Done
  /\ \E a \in AllAnalyses :
       /\ a.package.current = VNA
       /\ a.package.latest = V18x2x0
       /\ a.package.type = "peerDependencies"
       /\ a.advisories = <<>>
       /\ a.patchUpdate
       /\ a.priority = "safe"
       /\ a.riskScore = 0

\* the table entries of a package for the major number of its latest version
LatestEntries(pkg) ==
  {r \in BREAKING_CHANGES_DB :
     r.name = pkg.name /\ r.major = MajorMinor(pkg.latest)[1]}

\* the name contains one of the words
Family(name, words) == \E w \in words : Includes(name, w)

\* the effort tier C26 gives a package with a major update
TierOf(pkg) ==
  IF LatestEntries(pkg) # {} THEN (CHOOSE r \in LatestEntries(pkg) : TRUE).effort
  ELSE IF Family(pkg.name, {<<"e", "s", "l", "i", "n", "t">>,
                            <<"w", "e", "b", "p", "a", "c", "k">>})
       THEN "high"
  ELSE IF Family(pkg.name, {<<"r", "e", "a", "c", "t">>, <<"v", "u", "e">>,
                            <<"a", "n", "g", "u", "l", "a", "r">>})
       THEN "medium"
  ELSE IF MajorMinor(pkg.latest)[1] - MajorMinor(pkg.current)[1] >= 2
       THEN "medium"
  ELSE "low"

\* C26: with a major update the effort is the effort of the table entry
\* for the latest major; without such an entry it is high for names
\* containing eslint or webpack, else medium for names containing react,
\* vue or angular, else medium for a jump of 2 or more majors, else low.
\* Without a major update the effort is low.
C26_EffortTier ==
  Done =>
    \A a \in AllAnalyses :
      a.effort = (IF Coercible(a.package) /\ KindOf(a.package) = "major"
                  THEN TierOf(a.package) ELSE "low")

\* eslint-plugin-react, a linter-family and UI-framework-family name with no
\* entry for major 17, is high
C26_Witness ==
  /\ Done
  /\ \E a \in AllAnalyses :
       /\ a.package.name = eslintPluginReact
       /\ a.package.current = V4x17x20 /\ a.package.latest = V17x0x2
       /\ LatestEntries(a.package) = {}
       /\ a.majorUpdate
       /\ a.effort = "high"

\* the majors of the table entries of the looked-up name
MajorsOf(name) == {r.major : r \in {e \in BREAKING_CHANGES_DB : e.name = name}}

\* C25: hasKnownBreakingChanges(name, currentMajor, latestMajor) is true
\* iff currentMajor < latestMajor and the table has an entry for name at
\* some major v with currentMajor < v <= latestMajor; whenever
\* getBreakingChangeInfo returns an entry, hasKnownBreakingChanges is true.
C25_KnownBreakingChanges ==
  query.returned # <<>> =>
    /\ query.returned[1].hasKnownBreakingChanges <=>
         /\ query.currentMajor < query.latestMajor
         /\ \E v \in MajorsOf(query.pkgName) :
              query.currentMajor < v /\ v <= query.latestMajor
    /\ query.returned[1].getBreakingChangeInfo # Null =>
         query.returned[1].hasKnownBreakingChanges

\* lodash from 4 to 6: known breaking changes (the entry for 5) although
\* getBreakingChangeInfo finds no entry for 6
C25_Witness ==
  /\ query # Null
  /\ query.returned # <<>>
  /\ query.pkgName = lodash
  /\ query.currentMajor = 4
  /\ query.latestMajor = 6
  /\ query.returned[1].hasKnownBreakingChanges
  /\ query.returned[1].getBreakingChangeInfo = Null

\* the recommendation is one of the two security messages
SecurityMessage ==
  \/ result.summary.recommendation =
       <<"Fix ", result.summary.criticalVulnerabilities,
         " critical vulnerabilities immediately!">>
  \/ result.summary.recommendation =
       <<"Address ", result.summary.highVulnerabilities,
         " high severity issues soon.">>

\* C30: the critical bucket is non-empty iff criticalVulnerabilities +
\* highVulnerabilities > 0, which holds iff the recommendation is one of
\* the two security messages; securityScore = 100 iff totalVulnerabilities
\* = 0.
C30_SummaryConsistent ==
  Done =>
    /\ (result.critical # <<>>) <=>
         (result.summary.criticalVulnerabilities
            + result.summary.highVulnerabilities > 0)
    /\ (result.summary.criticalVulnerabilities
          + result.summary.highVulnerabilities > 0) <=> SecurityMessage
    /\ (result.securityScore = 100) <=> (result.summary.totalVulnerabilities = 0)

\* a run with a high advisory and no critical one: the critical bucket is
\* filled, the second security message is given and the score is below 100
C30_Witness ==
  /\ Done
  /\ result.critical # <<>>
  /\ result.summary.criticalVulnerabilities = 0
  /\ result.summary.highVulnerabilities > 0
  /\ result.summary.recommendation =
       <<"Address ", result.summary.highVulnerabilities,
         " high severity issues soon.">>
  /\ result.securityScore < 100

\* the libyear run returned its metrics
Measured == metrics # Null

\* whole days from the release of the current version of a package to the
\* release of its latest one, as the registry of the run tells them; 0
\* when the registry does not tell both dates or tells them the other way
\* round
DaysApart(name) ==
  CASE ~registry[name].timeOk -> 0
    [] registry[name].time = timeAnswer(PoolPkg(name), "later") -> 400
    [] registry[name].time = timeAnswer(PoolPkg(name), "muchLater") -> 4000
    [] OTHER -> 0

\* the sum of the packages' days outdated
DaysOutdatedSum == SumSeq([i \in 1..Len(outdated) |-> DaysApart(outdated[i].name)])

\* the packages whose latest major is above their current one: react
\* 17.0.2 -> 18.2.0 alone in the pool
MajorsBehind == Cardinality({i \in 1..Len(outdated) : outdated[i].name = react})

\* x clamped to lo..hi
Clamp(x, lo, hi) == IF x < lo THEN lo ELSE IF x > hi THEN hi ELSE x

\* C27: for a non-empty package list, freshnessScore equals 100 - 10 *
\* totalLibyears - 5 * majorsBehind, clamped to [0, 100] and rounded to an
\* integer, where totalLibyears is the sum of the packages' days outdated
\* divided by 365; the score is always within 0..100.  (Both sides are
\* compared after multiplying by 365: the score is the integer nearest to
\* the clamped value.)
C27_FreshnessScore ==
  (Measured /\ outdated # <<>>) =>
    /\ metrics.freshnessScore \in 0..100
    /\ metrics.majorsBehind = MajorsBehind
    /\ 2 * (365 * metrics.freshnessScore
            - Clamp(36500 - 10 * DaysOutdatedSum - 1825 * MajorsBehind,
                    0, 36500)) \in -365..365

\* react alone, its latest version 400 days after the current one:
\* 100 - 10.96 - 5 = 84.04, rounded to 84
C27_Witness ==
  /\ Measured
  /\ Len(outdated) = 1
  /\ outdated[1].name = react
  /\ metrics.driftDays = 400
  /\ metrics.majorsBehind = 1
  /\ metrics.freshnessScore = 84

\* the registry tells both publish dates of a package
DatesKnown(pkg) ==
  /\ registry[pkg.name].timeOk
  /\ pkg.current \in DOMAIN registry[pkg.name].time
  /\ pkg.latest \in DOMAIN registry[pkg.name].time

\* C28: a package whose current or latest publish date is unknown (or whose
\* registry lookup failed) contributes 0 days to driftDays and
\* totalLibyears and raises no error (the run returns its metrics); the
\* days a package contributes are never negative, also when the latest
\* version was published before the current one.
C28_UnknownDatesCountZero ==
  (Measured /\ outdated # <<>>) =>
    /\ metrics.driftDays >= 0
    /\ metrics.driftDays
         = SumSeq([i \in 1..Len(outdated) |->
                     IF DatesKnown(outdated[i])
                     THEN DaysApart(outdated[i].name) ELSE 0])
    /\ 2 * (365 * metrics.totalLibyears - 100 * metrics.driftDays)
         \in -365..365
    /\ (\A i \in 1..Len(outdated) :
          \/ ~DatesKnown(outdated[i])
          \/ registry[outdated[i].name].time
               = timeAnswer(outdated[i], "earlier"))
         => metrics.driftDays = 0 /\ metrics.totalLibyears = 0

\* a run over a package whose time lookup failed and a package whose
\* latest version was published before the current one
C28_Witness ==
  /\ Measured
  /\ Len(outdated) = 2
  /\ ~registry[outdated[1].name].timeOk
  /\ outdated[2].name # outdated[1].name
  /\ registry[outdated[2].name].time = timeAnswer(outdated[2], "earlier")
  /\ metrics.driftDays = 0
  /\ metrics.totalLibyears = 0

(***************************************************************************)
(* getPackageHealth(name) and its healthCache                              *)
(*                                                                         *)
(* A PackageHealth is a record of its five optional fields, each a         *)
(* sequence of at most one value.  Times are counted in hours since 1970   *)
(* and the local time zone is UTC.                                         *)
(* healthCalls is the history of the calls of the process: the name asked  *)
(* for, the value returned and the number of execSync calls made.          *)
(***************************************************************************)
\* const health: PackageHealth = {}
emptyHealth ==
  [weeklyDownloads |-> <<>>, lastPublish |-> <<>>, isDeprecated |-> <<>>,
   isUnmaintained |-> <<>>, hasTypes |-> <<>>]

\* info.time[latestVersion] of a package with a publish time:
\* 2023-06-01T12:00Z, in hours since 1970
LastPublished == 468228

\* the weekly downloads the registry reports
Downloads == 1200

\* what the clock may read: 2025-06-01T00:00Z, two calendar years (731
\* days, 29 February 2024 lies in between) after the midnight before
\* LastPublished, or 2025-06-02T00:00Z, two years after the midnight after
HealthClock == {485760, 485784}

\* days from 0000-03-01 to 1970-01-01 in the proleptic Gregorian calendar
EpochShift == 719468

\* days in 400 years
DaysPerEra == 146097

\* Day(t): the day number of a time, counted from 0000-03-01
ShiftedDay(t) == t \div HoursPerDay + EpochShift

\* TimeWithinDay(t), in hours
TimeWithinDay(t) == t % HoursPerDay

\* the year of the era (0..399) of the day of era doe, years starting on
\* 1 March
YearOfEra(doe) ==
  (doe - doe \div 1460 + doe \div 36524 - doe \div 146096) \div 365

\* the day within that year, 0 on 1 March
DayOfYear(doe) ==
  doe - (365 * YearOfEra(doe) + YearOfEra(doe) \div 4
         - YearOfEra(doe) \div 100)

\* the month of the day of year doy, 0 for March .. 11 for February
MarchMonth(doy) == (5 * doy + 2) \div 153

\* MonthFromTime(t), 1 for January .. 12 for December (UTC)
MonthFromTime(t) ==
  IF MarchMonth(DayOfYear(ShiftedDay(t) % DaysPerEra)) < 10
  THEN MarchMonth(DayOfYear(ShiftedDay(t) % DaysPerEra)) + 3
  ELSE MarchMonth(DayOfYear(ShiftedDay(t) % DaysPerEra)) - 9

\* DateFromTime(t), the day of the month
DateFromTime(t) ==
  DayOfYear(ShiftedDay(t) % DaysPerEra)
    - (153 * MarchMonth(DayOfYear(ShiftedDay(t) % DaysPerEra)) + 2) \div 5
    + 1

\* YearFromTime(t), what getFullYear() returns
YearFromTime(t) ==
  YearOfEra(ShiftedDay(t) % DaysPerEra)
    + 400 * (ShiftedDay(t) \div DaysPerEra)
    + (IF MonthFromTime(t) <= 2 THEN 1 ELSE 0)

\* the day number of the date-th day after the last day before month m of
\* the year whose March-based year is y: a date past the end of the month
\* runs into the next one (29 February of a common year is 1 March)
MakeShiftedDay(y, m, date) ==
  (y \div 400) * DaysPerEra
    + (y % 400) * 365 + (y % 400) \div 4 - (y % 400) \div 100
    + (153 * (IF m > 2 THEN m - 3 ELSE m + 9) + 2) \div 5 + date - 1

\* MakeDay(year, month, date), in days since 1970
MakeDay(year, m, date) ==
  MakeShiftedDay(IF m <= 2 THEN year - 1 ELSE year, m, date) - EpochShift

\* t.setFullYear(year): the same month, date and time of day in that year
setFullYear(t, year) ==
  MakeDay(year, MonthFromTime(t), DateFromTime(t)) * HoursPerDay
    + TimeWithinDay(t)

\* what `npm view name --json` may answer: nothing (the command fails or
\* prints no JSON), a package with a publish time of its latest version
\* and no types, or a deprecated package with types and no times
InfoAnswers == {"fails", "published", "deprecated"}

\* how the weekly downloads are found: by the grep over npm view, not
\* there although the grep pipeline exits 0 (it prints nothing), by the
\* downloads API after the pipeline failed, there with 0 downloads, or not
\* at all
DownloadAnswers == {"grep", "grepEmpty", "curl", "curlZero", "none"}

\* twoYearsAgo.setFullYear(twoYearsAgo.getFullYear() - 2)
twoYearsAgo(now) == setFullYear(now, YearFromTime(now) - 2)

\* the fields the first try block sets
healthInfo(info, now) ==
  CASE info = "published" ->
         [emptyHealth EXCEPT !.lastPublish = <<LastPublished>>,
                             !.isUnmaintained = <<LastPublished < twoYearsAgo(now)>>,
                             !.hasTypes = <<FALSE>>]
    [] info = "deprecated" ->
         [emptyHealth EXCEPT !.isDeprecated = <<TRUE>>,
                             !.hasTypes = <<TRUE>>]
    [] OTHER -> emptyHealth

\* health.weeklyDownloads after the second try block
weeklyDownloads(downloads) ==
  IF downloads \in {"grep", "curl"} THEN <<Downloads>> ELSE <<>>

\* the health an uncached call builds
health(info, downloads, now) ==
  [healthInfo(info, now) EXCEPT !.weeklyDownloads = weeklyDownloads(downloads)]

\* the value getPackageHealth(name) returns
getPackageHealth(cache, name, info, downloads, now) ==
  IF name \in DOMAIN cache THEN cache[name]
  ELSE health(info, downloads, now)

\* the execSync calls of getPackageHealth(name): npm view, the grep over
\* npm view and, when that pipeline throws, curl
healthLookups(cache, name, downloads) ==
  IF name \in DOMAIN cache THEN 0
  ELSE IF downloads \in {"grep", "grepEmpty"} THEN 2
  ELSE 3

\* variant: a result without any field is not stored
healthCacheAfter_unlessEmpty(cache, name, returned) ==
  IF name \in DOMAIN cache \/ returned = emptyHealth THEN cache
  ELSE [n \in DOMAIN cache \cup {name} |->
          IF n = name THEN returned ELSE cache[n]]

\* healthCache after the call: healthCache.set(name, health) unless the
\* call returned from the cache
healthCacheAfter(cache, name, returned) ==
  IF name \in DOMAIN cache THEN cache
  ELSE [n \in DOMAIN cache \cup {name} |->
          IF n = name THEN returned ELSE cache[n]]

\* the names health is asked for
HealthNames == {lodash, react}

\* most calls of getPackageHealth in a process
MaxHealthCalls == 3

InitHealth ==
  /\ outdated = <<>>
  /\ advisories = <<>>
  /\ result = Null
  /\ CliIdle
  /\ LibyearIdle
  /\ TableIdle
  /\ HealthIdle

\* getPackageHealth(name), the registry answering info and downloads and
\* the clock reading now
GetPackageHealth ==
  /\ Len(healthCalls) < MaxHealthCalls
  /\ \E name \in HealthNames, info \in InfoAnswers,
        downloads \in DownloadAnswers, now \in HealthClock :
       /\ healthCalls' =
            Append(healthCalls,
                   [name |-> name,
                    returned |-> getPackageHealth(healthCache, name, info,
                                                  downloads, now),
                    lookups |-> healthLookups(healthCache, name, downloads)])
       /\ healthCache' =
            healthCacheAfter(healthCache, name,
                             getPackageHealth(healthCache, name, info,
                                              downloads, now))
  /\ UNCHANGED <<outdated, advisories, result, cliVars, libyearVars,
               tableVars>>

NextHealth == GetPackageHealth

SpecHealth == InitHealth /\ [][NextHealth]_vars

\* C29: once getPackageHealth(name) has returned for a name, every later
\* call getPackageHealth(name) in the same process returns that same
\* health value without performing any external lookup, including when
\* the first lookup failed (the empty result is cached); calls for a
\* different name never change the cached value of name.
C29_HealthCached ==
  /\ \A i \in 1..Len(healthCalls) :
       /\ healthCalls[i].name \in DOMAIN healthCache
       /\ healthCache[healthCalls[i].name]
            = healthCalls[CHOOSE f \in 1..i :
                            /\ healthCalls[f].name = healthCalls[i].name
                            /\ \A e \in 1..(f - 1) :
                                 healthCalls[e].name # healthCalls[i].name
                         ].returned
  /\ \A i, j \in 1..Len(healthCalls) :
       (i < j /\ healthCalls[i].name = healthCalls[j].name)
         => /\ healthCalls[j].returned = healthCalls[i].returned
            /\ healthCalls[j].lookups = 0

\* a failed lookup for one name, a call for another name, and the first
\* name again: the empty result comes from the cache
C29_Witness ==
  /\ Len(healthCalls) = 3
  /\ healthCalls[1].returned = emptyHealth
  /\ healthCalls[1].lookups = 3
  /\ healthCalls[2].name # healthCalls[1].name
  /\ healthCalls[2].returned.weeklyDownloads = <<Downloads>>
  /\ healthCalls[3].name = healthCalls[1].name
  /\ healthCalls[3].returned = emptyHealth
  /\ healthCalls[3].lookups = 0

====
